---------------------------- MODULE Spec2Model ----------------------------
(***************************************************************************)
(* A model of the three engines of the Bubbles WeChat bot:                 *)
(*   - the command router (src/commands/router.py) and the part of         *)
(*     Robot.processMsg that consumes its verdict (src/robot.py);          *)
(*   - the reminder engine (src/function/func_reminder.py);                *)
(*   - the duel ranking store and duel engine (src/function/func_duel.py), *)
(* and of the two thread managers, DuelManager (src/function/func_duel.py) *)
(* and PerplexityManager (src/ai_providers/ai_perplexity.py).              *)
(* Each part has its own specification: the parts share no state.          *)
(***************************************************************************)
EXTENDS Integers, Sequences, FiniteSets, TLC

VARIABLES
    \* --- the command router
    commands,   \* CommandRouter.commands: the command list, sorted by priority
    routed,     \* what the latest Robot.processMsg did (NoMsg before the first)
    \* --- the reminder engine
    clock,      \* datetime.now(), in minutes since 2099-01-00 00:00
    reminders,  \* the reminders table: id -> row
    nextId,     \* the next fresh reminder id (uuid4 never repeats)
    db_lock,    \* ReminderManager._db_lock: its holder, or Free
    tpc,        \* where each check_and_trigger_reminders invocation stands
    tnow,       \* its `now`
    tfired,     \* its reminders_to_delete and reminders_to_update
    sent,       \* for each row of the table, the `now` of every tick that sent it
    ret,        \* the latest call of the public interface and what it returned
    \* --- the duel store
    players,    \* the duel_players table: <<group_id, player_name>> -> row
    duel,       \* the duel of the live duel thread (NoDuel: no thread)
    ops,        \* the number of duels, sneak attacks and renames so far
    drec,       \* the latest call that wrote to the store
    \* --- computations without state
    pcall,      \* the latest computation: its name, its inputs, its result
    \* --- the duel manager
    duel_lock,    \* DuelManager._duel_lock: its holder, or Free
    duel_thread,  \* DuelManager._duel_thread: a thread, or Null for None
    threads,      \* where each duel thread stands in run_duel
    spc,          \* where each caller of start_duel_thread stands
    sret,         \* the latest return of start_duel_thread
    \* --- the Perplexity request manager
    pplx_lock,    \* PerplexityManager.lock: its holder, or Free
    pplx_threads, \* PerplexityManager.threads: thread_key -> thread, Null if absent
    pplx_run,     \* every PerplexityThread: its thread_key and where it stands
    pplx_pc,      \* where each caller of start_request stands, and its thread_key
    pplx_ret,     \* the latest return of start_request
    \* --- the calls of add_reminder
    areq,         \* the latest add_reminder call: its arguments and its message
    \* --- the sends of the reminder engine
    failed,       \* the sends that raised: <<id, now>> of the row and the tick
    \* --- the reminder command
    hr,           \* handle_reminder: where it stands, what the AI answered, what it sent
    \* --- the storage locks
    held,         \* the holder of each _db_lock, or Free
    doing         \* each thread's storage operation, where it stands in it, its calls so far

routerVars == <<commands, routed>>

reminderVars == <<clock, reminders, nextId, db_lock, tpc, tnow, tfired, sent, ret>>

duelVars == <<players, duel, ops, drec>>

managerVars == <<duel_lock, duel_thread, threads, spc, sret>>

perplexityVars == <<pplx_lock, pplx_threads, pplx_run, pplx_pc, pplx_ret>>

lockVars == <<held, doing>>

\* The variables outside the three engines.
restVars == <<pcall, managerVars, perplexityVars, areq, failed, hr, lockVars>>

vars == <<routerVars, reminderVars, duelVars, restVars>>

(***************************************************************************)
(*                          THE COMMAND ROUTER                             *)
(***************************************************************************)

\* Bound: the number of registered commands.
MaxCmds == 2

\* Priorities a command may be registered with (lower runs first).
Priorities == {1, 2}

Scopes == {"group", "private", "both"}

\* commands/models.py Command: name, scope, need_at, priority.  The name is
\* the command's position in the registration list.
Command(n, p, s, a) == [name |-> n, priority |-> p, scope |-> s, need_at |-> a]

\* Every registration list COMMANDS of at most MaxCmds commands.
CommandLists ==
    UNION { { [i \in 1..n |-> Command(i, ps[i], ss[i], as[i])] :
                ps \in [1..n -> Priorities], ss \in [1..n -> Scopes],
                as \in [1..n -> BOOLEAN] } : n \in 1..MaxCmds }

\* Python's sorted(commands, key=lambda cmd: cmd.priority): a stable sort,
\* written as an insertion of each command behind the commands that do not
\* have a larger priority.
RECURSIVE InsertByPriority(_, _)
InsertByPriority(c, sorted) ==
    IF sorted = <<>> THEN <<c>>
    ELSE IF Head(sorted).priority <= c.priority
         THEN <<Head(sorted)>> \o InsertByPriority(c, Tail(sorted))
         ELSE <<c>> \o sorted

RECURSIVE SortFrom(_, _, _)
SortFrom(cs, i, acc) ==
    IF i > Len(cs) THEN acc ELSE SortFrom(cs, i + 1, InsertByPriority(cs[i], acc))

\* A mutant of the constructor: the list is kept in registration order.
SortByPriorityUnsorted(cs) == cs

\* CommandRouter.__init__: self.commands = sorted(commands, key=priority)
SortByPriority(cs) == SortFrom(cs, 1, <<>>)

\* What a command's pattern and handler do with one message:
\*   "nomatch"   the pattern returns None
\*   "patraise"  the pattern predicate raises
\*   "true"      the pattern matches and the handler returns a truthy value
\*   "false"     the pattern matches and the handler returns a falsy value
\*   "raise"     the pattern matches and the handler raises
Outcomes == {"nomatch", "patraise", "true", "false", "raise"}

\* dispatch step 1: the scope check, `continue` when it excludes the message.
ScopeExcluded(c, ctx) ==
    /\ c.scope # "both"
    /\ \/ (c.scope = "group" /\ ~ctx.is_group)
       \/ (c.scope = "private" /\ ctx.is_group)

\* A mutant of step 2: the need_at check is left out.
NeedAtSkipNever(c, ctx) == FALSE

\* dispatch step 2: `continue` for a need_at command of a group message that
\* does not mention the bot.
NeedAtSkip(c, ctx) == ctx.is_group /\ c.need_at /\ ~ctx.is_at_bot

\* A mutant of step 3: a raising pattern ends the dispatch with its exception.
AfterPatternAbortOnRaise(o) ==
    IF o = "nomatch" THEN "continue" ELSE IF o = "patraise" THEN "abort" ELSE "handle"

\* dispatch step 3, lines 66-79 and 102-108: a pattern that returns None and
\* a pattern that raises (the outer `except Exception`) both `continue`;
\* any other result goes to the handler.
AfterPattern(o) == IF o \in {"nomatch", "patraise"} THEN "continue" ELSE "handle"

\* A mutant of step 4: a raising handler ends the dispatch, unhandled.
AfterHandlerAbortOnRaise(o) ==
    IF o = "true" THEN "return" ELSE IF o = "raise" THEN "abort" ELSE "continue"

\* dispatch step 4, lines 86-101: a truthy result returns True; a falsy result
\* and an exception both go on to the next command.
AfterHandler(o) == IF o = "true" THEN "return" ELSE "continue"

\* A mutant of the loop: a truthy handler is recorded but the loop goes on.
StopsKeepGoing(verdict) == FALSE

\* Whether the loop is left after a handler ("return" or, for the mutant, "abort").
Stops(verdict) == verdict # "continue"

\* CommandRouter.dispatch, the loop from command i on.  `ev` are the names of
\* the commands whose pattern was evaluated, `inv` those whose handler was
\* invoked, in order; `propagated` tells whether the call ended with an
\* exception instead of a return value.
RECURSIVE DispatchFrom(_, _, _, _, _, _)
DispatchFrom(cmds, ctx, beh, i, ev, inv) ==
    IF i > Len(cmds)
    THEN [handled |-> FALSE, evaluated |-> ev, invoked |-> inv, propagated |-> FALSE]
    ELSE LET c == cmds[i]
             o == beh[c.name]
         IN  IF ScopeExcluded(c, ctx) \/ NeedAtSkip(c, ctx)
             THEN DispatchFrom(cmds, ctx, beh, i + 1, ev, inv)
             ELSE IF AfterPattern(o) = "continue"
             THEN DispatchFrom(cmds, ctx, beh, i + 1, Append(ev, c.name), inv)
             ELSE IF AfterPattern(o) = "abort"
             THEN [handled |-> FALSE, evaluated |-> Append(ev, c.name),
                   invoked |-> inv, propagated |-> TRUE]
             ELSE IF Stops(AfterHandler(o))
             THEN [handled |-> AfterHandler(o) = "return",
                   evaluated |-> Append(ev, c.name),
                   invoked |-> Append(inv, c.name),
                   propagated |-> AfterHandler(o) = "abort"]
             ELSE DispatchFrom(cmds, ctx, beh, i + 1,
                               Append(ev, c.name), Append(inv, c.name))

Dispatch(cmds, ctx, beh) == DispatchFrom(cmds, ctx, beh, 1, <<>>, <<>>)

\* The text messages Robot.processMsg receives (msg.type = 1).  is_at is
\* msg.is_at(self.wxid); in_groups is msg.roomid in config.GROUPS.
Messages ==
    { m \in [from_group : BOOLEAN, is_at : BOOLEAN, from_self : BOOLEAN,
             in_groups : BOOLEAN] :
        /\ ~m.from_group => (~m.is_at /\ ~m.in_groups)
        /\ m.from_group => ~m.from_self }

\* Robot.preprocess for a text message: the fields of MessageContext the
\* router reads.
Preprocess(m) ==
    [is_group |-> m.from_group, is_at_bot |-> m.from_group /\ m.is_at]

\* A mutant of processMsg: the AI router is tried for private messages only.
AiRouteWantedPrivateOnly(m) == ~m.from_group

\* processMsg step 6: the AI router is tried for a mention or a private message.
AiRouteWanted(m) == (m.from_group /\ m.is_at) \/ ~m.from_group

\* processMsg steps 7.3 and 7.4 for a text message: who gets handle_chitchat.
ChitchatWanted(m) ==
    IF m.from_group /\ m.in_groups THEN m.is_at
    ELSE ~m.from_group /\ ~m.from_self

NoMsg == [kind |-> "none"]

\* Robot.processMsg(msg): preprocess, command_router.dispatch, then the
\* fallbacks.  beh is what each command does with this message, ai is the
\* verdict of ai_router.dispatch when it is called.  The router keeps no
\* state between messages (commands is never reassigned), so a behaviour
\* follows one message through.
ProcessMsg(m, beh, ai) ==
    LET ctx == Preprocess(m)
        d == Dispatch(commands, ctx, beh)
        aiTried == ~d.handled /\ AiRouteWanted(m)
        aiHandled == aiTried /\ ai
    IN  /\ routed' = [kind |-> "msg", msg |-> m, ctx |-> ctx, beh |-> beh,
                      handled |-> d.handled, evaluated |-> d.evaluated,
                      invoked |-> d.invoked, propagated |-> d.propagated,
                      aiTried |-> aiTried,
                      aiHandled |-> aiHandled,
                      chitchat |-> ~d.handled /\ ~aiHandled /\ ChitchatWanted(m)]
        /\ UNCHANGED <<commands, reminderVars, duelVars, restVars>>

(***************************************************************************)
(*                          THE REMINDER ENGINE                            *)
(***************************************************************************)

\* Bound: the clock runs through days 1..MaxDay of January 2099.
MaxDay == 2

\* Bound: the number of rows add_reminder inserts in one behaviour.
MaxReminders == 1

\* SQL NULL / Python None in an integer column (last_triggered_at, weekday).
Null == -1

Users == {"u1", "u2"}

\* roomid: None for a private reminder, else the chat room.
NoRoom == "none"
Rooms == {NoRoom, "room1"}

\* The invocations of check_and_trigger_reminders that may overlap.
Tickers == {"t1", "t2"}

Free == "free"

\* --- time: an instant is a number of minutes, seconds being always 0 ---

Instant(d, h, m) == (d * 24 + h) * 60 + m
DayOf(t) == t \div (24 * 60)
HourOf(t) == (t \div 60) % 24
MinuteOf(t) == t % 60

\* datetime.weekday(), Monday = 0: 2099-01-01 is a Thursday.
WeekdayOf(t) == (DayOf(t) + 2) % 7

\* The hours at which the clock is read.
ClockHours == {8, 9, 10}
ClockInstants == { Instant(d, h, 0) : d \in 1..MaxDay, h \in ClockHours }

\* --- strings: a string is the sequence of its character codes ---

Colon == <<58>>
Space == <<32>>
\* "2099-01-": the year and month of every date string of the model
DatePrefix == <<50, 48, 57, 57, 45, 48, 49, 45>>

IsDigit(c) == c \in 48..57

\* "%02d"
Pad2(n) == <<48 + (n \div 10), 48 + (n % 10)>>

\* Python's str comparison a <= b: lexicographic on the character codes.
RECURSIVE StrLE(_, _)
StrLE(a, b) ==
    IF a = <<>> THEN TRUE
    ELSE IF b = <<>> THEN FALSE
    ELSE IF Head(a) < Head(b) THEN TRUE
    ELSE IF Head(a) > Head(b) THEN FALSE
    ELSE StrLE(Tail(a), Tail(b))

\* now.strftime("%H:%M")
FormatHM(t) == Pad2(HourOf(t)) \o Colon \o Pad2(MinuteOf(t))

\* now.strftime("%Y-%m-%d %H:%M")
FormatYmdHM(t) == DatePrefix \o Pad2(DayOf(t)) \o Space \o FormatHM(t)

\* The position of the first character c of s at or after i, 0 if none.
RECURSIVE Find(_, _, _)
Find(s, c, i) ==
    IF i > Len(s) THEN 0 ELSE IF s[i] = c THEN i ELSE Find(s, c, i + 1)

\* A strptime number field: one or two digits (a leading zero is optional),
\* -1 when the text is no such field.
ParseNum(ds) ==
    IF Len(ds) = 1 /\ IsDigit(ds[1]) THEN ds[1] - 48
    ELSE IF Len(ds) = 2 /\ IsDigit(ds[1]) /\ IsDigit(ds[2])
         THEN (ds[1] - 48) * 10 + (ds[2] - 48)
    ELSE -1

\* datetime.strptime(s, "%H:%M"): ok is FALSE where strptime raises ValueError.
ParseHM(s) ==
    LET k == Find(s, 58, 1)
        h == IF k = 0 THEN -1 ELSE ParseNum(SubSeq(s, 1, k - 1))
        m == IF k = 0 THEN -1 ELSE ParseNum(SubSeq(s, k + 1, Len(s)))
    IN  IF h \in 0..23 /\ m \in 0..59
        THEN [ok |-> TRUE, hour |-> h, minute |-> m]
        ELSE [ok |-> FALSE, hour |-> 0, minute |-> 0]

\* datetime.strptime(s, "%Y-%m-%d %H:%M") for the dates of January 2099.
ParseYmdHM(s) ==
    LET n == Len(DatePrefix)
        k == Find(s, 32, n + 1)
        d == IF k = 0 THEN -1 ELSE ParseNum(SubSeq(s, n + 1, k - 1))
        hm == IF k = 0 THEN ParseHM(<<>>) ELSE ParseHM(SubSeq(s, k + 1, Len(s)))
    IN  IF Len(s) > n /\ SubSeq(s, 1, n) = DatePrefix /\ d \in 1..31 /\ hm.ok
        THEN [ok |-> TRUE, at |-> Instant(d, hm.hour, hm.minute)]
        ELSE [ok |-> FALSE, at |-> 0]

\* --- the inputs of add_reminder ---

\* The hours reminders are set for, and the ways to write an hour that
\* strptime's %H accepts: zero-padded, or without the leading zero.
TriggerHours == {9}
HourForms(h) == {Pad2(h)} \cup (IF h < 10 THEN {<<48 + h>>} ELSE {})

\* "HH:MM" inputs
HMInputs ==
    { hf \o Colon \o Pad2(0) : hf \in UNION { HourForms(h) : h \in TriggerHours } }

\* "YYYY-MM-DD HH:MM" inputs
YmdHMInputs ==
    { DatePrefix \o Pad2(d) \o Space \o hm : d \in 1..MaxDay, hm \in HMInputs }

Types == {"once", "daily", "weekly"}

\* data["weekday"]: Friday (day 2 of the month), an out-of-range value, or
\* absent (Null).
WeekdayInputs == {4, 7, Null}

\* str.strip(): the text without its leading and trailing white space.
IsSpace(c) == c \in {32} \cup (9..13)

RECURSIVE LStrip(_)
LStrip(s) == IF s # <<>> /\ IsSpace(Head(s)) THEN LStrip(Tail(s)) ELSE s

RECURSIVE RStrip(_)
RStrip(s) ==
    IF s # <<>> /\ IsSpace(s[Len(s)]) THEN RStrip(SubSeq(s, 1, Len(s) - 1)) ELSE s

Strip(s) == RStrip(LStrip(s))

\* data["content"]: "tea", and " a ", one character between two spaces.
Tea == <<116, 101, 97>>
PaddedA == <<32, 97, 32>>
Contents == {Tea, PaddedA}

\* The data dictionaries handed to add_reminder.  keys_ok is whether type,
\* time and content are all present.
AddInputs ==
    { d \in [keys_ok : BOOLEAN, type : Types \cup {"monthly"},
             time : HMInputs \cup YmdHMInputs, weekday : WeekdayInputs,
             content : Contents] :
        /\ d.type # "weekly" => d.weekday = Null
        /\ ~d.keys_ok => (d.type = "daily" /\ d.time = Pad2(9) \o Colon \o Pad2(0))
        /\ d.content # Tea =>
              (d.keys_ok /\ d.type = "daily" /\ d.time = Pad2(9) \o Colon \o Pad2(0)) }


\* --- add_reminder ---

\* A mutant of the validation: a once reminder may lie in the past.
ValidateAnyTime(data, now) ==
    IF ~data.keys_ok THEN "fields"
    ELSE IF data.type \notin Types THEN "type"
    ELSE IF data.type = "once"
         THEN IF ~ParseYmdHM(data.time).ok THEN "format" ELSE "ok"
    ELSE IF ~ParseHM(data.time).ok THEN "format"
    ELSE IF data.type = "weekly" /\ data.weekday \notin 0..6 THEN "weekday"
    ELSE "ok"

\* The validation of add_reminder: "ok", or the defect it reports.
Validate(data, now) ==
    IF ~data.keys_ok THEN "fields"
    ELSE IF data.type \notin Types THEN "type"
    ELSE IF data.type = "once"
         THEN IF ~ParseYmdHM(data.time).ok THEN "format"
              ELSE IF ParseYmdHM(data.time).at <= now THEN "past"
              ELSE "ok"
    ELSE IF ~ParseHM(data.time).ok THEN "format"
    ELSE IF data.type = "weekly" /\ data.weekday \notin 0..6 THEN "weekday"
    ELSE "ok"

\* The row add_reminder inserts (created_at is never read by the engine and
\* is left out).
NewRow(wxid, data, roomid) ==
    [wxid |-> wxid, type |-> data.type, time_str |-> data.time,
     content |-> data.content,
     last_triggered_at |-> Null,
     weekday |-> IF data.type = "weekly" THEN data.weekday ELSE Null,
     roomid |-> roomid]

\* A mutant of the lock: it never makes anyone wait.
LockFreeAlways == TRUE

\* `with self._db_lock` can be entered.
LockFree == db_lock = Free

\* A call of the public interface and its return: ref is the reminder_id
\* delete_reminder got.
Call(op, ok, wxid, id) ==
    [op |-> op, ok |-> ok, wxid |-> wxid, id |-> id, ref |-> <<>>]
NoCall == Call("none", TRUE, "nobody", 0)

Extend(f, k, v) == [x \in DOMAIN f \cup {k} |-> IF x = k THEN v ELSE f[x]]
Without(f, ks) == [x \in DOMAIN f \ ks |-> f[x]]

AddReminder(wxid, data, roomid) ==
    IF Validate(data, clock) # "ok"
    THEN /\ ret' = Call("add", FALSE, wxid, 0)
         /\ UNCHANGED <<clock, reminders, nextId, db_lock, tpc, tnow, tfired, sent>>
    ELSE /\ LockFree
         /\ nextId <= MaxReminders
         /\ reminders' = Extend(reminders, nextId, NewRow(wxid, data, roomid))
         /\ sent' = Extend(sent, nextId, <<>>)
         /\ nextId' = nextId + 1
         /\ ret' = Call("add", TRUE, wxid, nextId)
         /\ UNCHANGED <<clock, db_lock, tpc, tnow, tfired>>

\* --- list_reminders ---

TypeRank(type) == IF type = "once" THEN 1 ELSE IF type = "daily" THEN 2 ELSE 3

\* ORDER BY CASE type ..., time_str: row a sorts no later than row b.
ListBefore(a, b) ==
    \/ TypeRank(a.type) < TypeRank(b.type)
    \/ TypeRank(a.type) = TypeRank(b.type) /\ StrLE(a.time_str, b.time_str)

RECURSIVE ListInsert(_, _)
ListInsert(ids, id) ==
    IF ids = <<>> THEN <<id>>
    ELSE IF ListBefore(reminders[Head(ids)], reminders[id])
         THEN <<Head(ids)>> \o ListInsert(Tail(ids), id)
    ELSE <<id>> \o ids

RECURSIVE ListFrom(_, _)
ListFrom(ids, acc) ==
    IF ids = {} THEN acc
    ELSE LET id == CHOOSE x \in ids : \A y \in ids : x <= y
         IN  ListFrom(ids \ {id}, ListInsert(acc, id))

\* The ids of the rows list_reminders(wxid) returns, in order.
ListReminders(wxid) ==
    ListFrom({ id \in DOMAIN reminders : reminders[id].wxid = wxid }, <<>>)

\* --- delete_reminder, delete_all_reminders ---

\* The text of a reminder id (a uuid4 in the program): "a1", "a2", ...
IdText(id) == <<97, 48 + id>>

\* The texts delete_reminder is called with: every id, and the first
\* character of an id.
ReminderRefs == { IdText(id) : id \in 1..MaxReminders } \cup {<<97>>}

\* The id whose text is reminder_id, 0 when it is the text of no id.
RefId(reminder_id) ==
    IF \E id \in 1..MaxReminders : IdText(id) = reminder_id
    THEN CHOOSE id \in 1..MaxReminders : IdText(id) = reminder_id
    ELSE 0

\* A mutant of delete_reminder: WHERE id = ?, whoever owns the row.
DeleteMatchesAnyOwner(id, wxid) == id \in DOMAIN reminders

\* WHERE id = ? AND wxid = ?
DeleteMatches(id, wxid) == id \in DOMAIN reminders /\ reminders[id].wxid = wxid

DeleteReminder(wxid, reminder_id) ==
    /\ LockFree
    /\ IF DeleteMatches(RefId(reminder_id), wxid)
       THEN /\ reminders' = Without(reminders, {RefId(reminder_id)})
            /\ sent' = Without(sent, {RefId(reminder_id)})
            /\ ret' = [Call("delete", TRUE, wxid, RefId(reminder_id)) EXCEPT
                          !.ref = reminder_id]
       ELSE /\ ret' = [Call("delete", FALSE, wxid, RefId(reminder_id)) EXCEPT
                          !.ref = reminder_id]
            /\ UNCHANGED <<reminders, sent>>
    /\ UNCHANGED <<clock, nextId, db_lock, tpc, tnow, tfired>>

DeleteAllReminders(wxid) ==
    LET mine == { id \in DOMAIN reminders : reminders[id].wxid = wxid }
    IN  /\ LockFree
        /\ IF mine = {}
           THEN /\ ret' = Call("delete_all", FALSE, wxid, 0)
                /\ UNCHANGED <<reminders, sent>>
           ELSE /\ reminders' = Without(reminders, mine)
                /\ sent' = Without(sent, mine)
                /\ ret' = Call("delete_all", TRUE, wxid, Cardinality(mine))
        /\ UNCHANGED <<clock, nextId, db_lock, tpc, tnow, tfired>>

\* --- check_and_trigger_reminders ---

\* WHERE type = 'once' AND time_str <= now.strftime("%Y-%m-%d %H:%M")
DueOnce(now) ==
    { id \in DOMAIN reminders :
        /\ reminders[id].type = "once"
        /\ StrLE(reminders[id].time_str, FormatYmdHM(now)) }

\* now.replace(hour=..., minute=...) with the hour and minute of time_str
TodayTrigger(time_str, now) ==
    Instant(DayOf(now), ParseHM(time_str).hour, ParseHM(time_str).minute)

\* A mutant of the tick: last_triggered_at is not looked at.
DueAgainAlways(last, today_trigger) == TRUE

\* last_triggered_dt is None or last_triggered_dt < today_trigger_dt
DueAgain(last, today_trigger) == last = Null \/ last < today_trigger

\* the daily rows with current_hm >= time_str that are due again
DueDaily(now) ==
    { id \in DOMAIN reminders :
        /\ reminders[id].type = "daily"
        /\ StrLE(reminders[id].time_str, FormatHM(now))
        /\ DueAgain(reminders[id].last_triggered_at,
                    TodayTrigger(reminders[id].time_str, now)) }

\* A mutant of the weekly query: the weekday is not compared.
DueWeeklyAnyDay(now) ==
    { id \in DOMAIN reminders :
        /\ reminders[id].type = "weekly"
        /\ StrLE(reminders[id].time_str, FormatHM(now))
        /\ DueAgain(reminders[id].last_triggered_at,
                    TodayTrigger(reminders[id].time_str, now)) }

\* WHERE type = 'weekly' AND weekday = ? AND time_str <= ?, that are due again
DueWeekly(now) ==
    { id \in DOMAIN reminders :
        /\ reminders[id].type = "weekly"
        /\ reminders[id].weekday = WeekdayOf(now)
        /\ StrLE(reminders[id].time_str, FormatHM(now))
        /\ DueAgain(reminders[id].last_triggered_at,
                    TodayTrigger(reminders[id].time_str, now)) }

NothingFired == [del |-> {}, upd |-> {}]

\* The invocation starts: it reads datetime.now() before it asks for the lock.
TickStart(t) ==
    /\ tpc[t] = "idle"
    /\ tpc' = [tpc EXCEPT ![t] = "wait"]
    /\ tnow' = [tnow EXCEPT ![t] = clock]
    /\ UNCHANGED <<clock, reminders, nextId, db_lock, tfired, sent, ret>>

\* The daily rows at which the loop raises: current_hm >= time_str holds and
\* datetime.strptime(time_str, "%H:%M") raises ValueError.
RaisingDaily(now) ==
    { id \in DOMAIN reminders :
        /\ reminders[id].type = "daily"
        /\ StrLE(reminders[id].time_str, FormatHM(now))
        /\ ~ParseHM(reminders[id].time_str).ok }

\* The rows of the weekly query at which the loop raises.
RaisingWeekly(now) ==
    { id \in DOMAIN reminders :
        /\ reminders[id].type = "weekly"
        /\ reminders[id].weekday = WeekdayOf(now)
        /\ StrLE(reminders[id].time_str, FormatHM(now))
        /\ ~ParseHM(reminders[id].time_str).ok }

\* It enters the lock, runs the three queries and sends what is due.  The
\* ValueError of a row leaves the function through its outer `except
\* Exception`: what the loops sent before it is sent, the two lists are lost.
\* The queries have no ORDER BY: the rows a loop handles before the one that
\* raises are any of its other rows.
TickSelect(t) ==
    LET now == tnow[t]
        once == DueOnce(now)
        daily == DueDaily(now) \ RaisingDaily(now)
        weekly == DueWeekly(now) \ RaisingWeekly(now)
        raises == RaisingDaily(now) # {} \/ RaisingWeekly(now) # {}
        cut == IF RaisingDaily(now) # {} THEN daily
               ELSE IF RaisingWeekly(now) # {} THEN weekly
               ELSE {}
    IN  /\ tpc[t] = "wait"
        /\ LockFree
        /\ db_lock' = t
        /\ tpc' = [tpc EXCEPT ![t] = "locked"]
        /\ \E before \in SUBSET cut :
              LET sending == IF RaisingDaily(now) # {} THEN once \cup before
                             ELSE IF RaisingWeekly(now) # {}
                                  THEN once \cup daily \cup before
                             ELSE once \cup daily \cup weekly
              IN  /\ tfired' = [tfired EXCEPT ![t] =
                                  IF raises THEN NothingFired
                                  ELSE [del |-> once, upd |-> daily \cup weekly]]
                  /\ sent' = [id \in DOMAIN reminders |->
                                IF id \in sending THEN Append(sent[id], now)
                                ELSE sent[id]]
        /\ UNCHANGED <<clock, reminders, nextId, tnow, ret>>

\* A mutant of step 4: every reminder that was sent is deleted.
TickCommitDeletingAll(t) ==
    /\ tpc[t] = "locked"
    /\ reminders' = Without(reminders, tfired[t].del \cup tfired[t].upd)
    /\ db_lock' = Free
    /\ tpc' = [tpc EXCEPT ![t] = "idle"]
    /\ tfired' = [tfired EXCEPT ![t] = NothingFired]
    /\ tnow' = [tnow EXCEPT ![t] = 0]
    /\ sent' = Without(sent, tfired[t].del \cup tfired[t].upd)
    /\ UNCHANGED <<clock, nextId, ret>>

\* A mutant of step 4: a reminder whose send raised is neither deleted nor
\* stamped.
TickCommitSkippingFailed(t) ==
    LET kept == { id \in DOMAIN reminders : <<id, tnow[t]>> \in failed }
    IN  /\ tpc[t] = "locked"
        /\ reminders' =
              [id \in DOMAIN reminders \ (tfired[t].del \ kept) |->
                  IF id \in tfired[t].upd \ kept
                  THEN [reminders[id] EXCEPT !.last_triggered_at = tnow[t]]
                  ELSE reminders[id]]
        /\ db_lock' = Free
        /\ tpc' = [tpc EXCEPT ![t] = "idle"]
        /\ tfired' = [tfired EXCEPT ![t] = NothingFired]
        /\ tnow' = [tnow EXCEPT ![t] = 0]
        /\ sent' = Without(sent, tfired[t].del \ kept)
        /\ UNCHANGED <<clock, nextId, ret>>

\* It deletes the once rows it sent, stamps the others, commits and leaves
\* the lock.
TickCommit(t) ==
    /\ tpc[t] = "locked"
    /\ reminders' =
          [id \in DOMAIN reminders \ tfired[t].del |->
              IF id \in tfired[t].upd
              THEN [reminders[id] EXCEPT !.last_triggered_at = tnow[t]]
              ELSE reminders[id]]
    /\ db_lock' = Free
    /\ tpc' = [tpc EXCEPT ![t] = "idle"]
    /\ tfired' = [tfired EXCEPT ![t] = NothingFired]
    /\ tnow' = [tnow EXCEPT ![t] = 0]
    /\ sent' = Without(sent, tfired[t].del)
    /\ UNCHANGED <<clock, nextId, ret>>

\* Time passes.
Advance ==
    /\ \E c \in ClockInstants : c > clock /\ clock' = c
    /\ UNCHANGED <<reminders, nextId, db_lock, tpc, tnow, tfired, sent, ret>>

\* --- the sends of a tick ---

\* The rows the invocation has just called _send_reminder for.
JustSent == { id \in DOMAIN reminders : sent'[id] # sent[id] }

\* TickSelect with the outcome of its sends: sendTextMsg raises for the rows
\* of `failing`; _send_reminder logs the exception and returns.
TickSelectSending(t, failing) ==
    /\ TickSelect(t)
    /\ failing \subseteq JustSent
    /\ failed' = failed \cup { <<id, tnow[t]>> : id \in failing }

\* schedule runs the job once a minute: no invocation reads a minute that an
\* earlier one has sent a reminder in.
FreshMinute ==
    \A id \in DOMAIN sent : \A i \in 1..Len(sent[id]) : sent[id][i] # clock

\* --- the reminders table the program finds when it starts ---

Week == 7 * 24 * 60

\* A week passes: the clock is read on the same days of the next week.
AdvanceWeek ==
    /\ \E c \in ClockInstants : c + Week > clock /\ clock' = c + Week
    /\ UNCHANGED <<reminders, nextId, db_lock, tpc, tnow, tfired, sent, ret>>

\* "09:00", and "09.00", which strptime's "%H:%M" does not parse.
NineHM == Pad2(9) \o Colon \o Pad2(0)
NineDotted == Pad2(9) \o <<46>> \o Pad2(0)

\* Rows of earlier runs: a once reminder for the first day at 09:00, a daily
\* one for 09:00 and a weekly one for Friday 09:00, as add_reminder writes
\* them; and a daily row whose time_str is not of add_reminder's making (the
\* column is TEXT NOT NULL, the file outlives the program).
StoredOnce == 11
StoredDaily == 12
StoredWeekly == 13
ForeignDaily == 14

StoredRow(id) ==
    IF id = StoredOnce
    THEN NewRow("u1", [type |-> "once", content |-> Tea,
                       time |-> DatePrefix \o Pad2(1) \o Space \o NineHM], NoRoom)
    ELSE IF id = StoredDaily
    THEN NewRow("u1", [type |-> "daily", content |-> Tea, time |-> NineHM], "room1")
    ELSE IF id = StoredWeekly
    THEN NewRow("u2", [type |-> "weekly", content |-> Tea, time |-> NineHM,
                       weekday |-> 4], NoRoom)
    ELSE NewRow("u2", [type |-> "daily", content |-> Tea, time |-> NineDotted], NoRoom)

\* The tables of rows that add_reminder wrote.
StoredReminders ==
    { [id \in ids |-> StoredRow(id)] :
        ids \in SUBSET {StoredOnce, StoredDaily, StoredWeekly} }

\* The tables that hold the foreign row as well.
ForeignReminders ==
    { [id \in ids \cup {ForeignDaily} |-> StoredRow(id)] :
        ids \in SUBSET {StoredOnce, StoredDaily, StoredWeekly} }

(***************************************************************************)
(*                            THE DUEL STORE                               *)
(***************************************************************************)

\* Bound: the number of duels, sneak attacks and renames of one behaviour.
MaxOps == 2

Groups == {"g1", "g2"}
PlayerNames == {"a", "b"}

\* The name of the AI opponent; a duel against it is a Boss fight.
Boss == "PaoPao"

\* The row get_player_data inserts for a player it does not find.
DefaultRow ==
    [score |-> 1000, wins |-> 0, losses |-> 0, total_matches |-> 0,
     elder_wand |-> 0, magic_stone |-> 0, invisibility_cloak |-> 0]

\* The duel_players table before any duel.
NoPlayers == <<>>

Key(g, n) == <<g, n>>
HasRow(T, g, n) == Key(g, n) \in DOMAIN T

\* SQL MAX(a, b) and Python max(a, b), min(a, b)
Max(a, b) == IF a > b THEN a ELSE b
Min(a, b) == IF a < b THEN a ELSE b

\* A mutant of the loser's UPDATE: score = score - ?
FloorNone(x) == x

\* score = MAX(1, score - ?)
FloorOne(x) == Max(1, x)

\* A mutant of the winner's UPDATE: total_matches is not counted up.
WinRowUncounted(row, points) ==
    [row EXCEPT !.score = @ + points, !.wins = @ + 1]

\* The winner's and the loser's UPDATE of a duel.
WinRow(row, points) ==
    [row EXCEPT !.score = @ + points, !.wins = @ + 1, !.total_matches = @ + 1]
LoseRow(row, points) ==
    [row EXCEPT !.score = FloorOne(@ - points), !.losses = @ + 1,
                !.total_matches = @ + 1]

\* The table after DuelRankSystem(g).get_player_data(n).
GetPlayerData(T, g, n) ==
    IF HasRow(T, g, n) THEN T ELSE Extend(T, Key(g, n), DefaultRow)

NoItem == "none"

\* A mutant of the item UPDATE: the count is decremented without MAX(0, ...).
ConsumeItemUnclamped(T, g, winner, loser, used_item) ==
    IF used_item = "elder_wand"
    THEN [T EXCEPT ![Key(g, winner)].elder_wand = @ - 1]
    ELSE IF used_item = "magic_stone"
    THEN [T EXCEPT ![Key(g, loser)].magic_stone = @ - 1]
    ELSE IF used_item = "invisibility_cloak"
    THEN [T EXCEPT ![Key(g, winner)].invisibility_cloak = @ - 1]
    ELSE T

\* The item UPDATE of record_duel_result: the elder wand and the cloak are
\* the winner's, the magic stone is the loser's.
ConsumeItem(T, g, winner, loser, used_item) ==
    IF used_item = "elder_wand"
    THEN [T EXCEPT ![Key(g, winner)].elder_wand = Max(0, @ - 1)]
    ELSE IF used_item = "magic_stone"
    THEN [T EXCEPT ![Key(g, loser)].magic_stone = Max(0, @ - 1)]
    ELSE IF used_item = "invisibility_cloak"
    THEN [T EXCEPT ![Key(g, winner)].invisibility_cloak = Max(0, @ - 1)]
    ELSE T

\* return (winner_points, loser_points)
RecordDuelReturn(winner_points, loser_points) ==
    <<winner_points, loser_points>>

\* The table after record_duel_result.
RecordDuelResult(T, g, winner, loser, winner_points, loser_points, used_item) ==
    LET T1 == GetPlayerData(GetPlayerData(T, g, winner), g, loser)
        T2 == [T1 EXCEPT ![Key(g, winner)] = WinRow(@, winner_points)]
        T3 == [T2 EXCEPT ![Key(g, loser)] = LoseRow(@, loser_points)]
    IN  ConsumeItem(T3, g, winner, loser, used_item)

\* A mutant of the won Boss fight: the player gets one item, not the three.
BossWinOneItem(T, g, n) ==
    IF HasRow(T, g, n)
    THEN [T EXCEPT ![Key(g, n)] = [WinRow(@, 300) EXCEPT !.elder_wand = @ + 1]]
    ELSE T

\* The Boss fight's two endings: the player wins 300 points and one of each
\* item, or loses 100 points.
BossWin(T, g, n) ==
    IF HasRow(T, g, n)
    THEN [T EXCEPT ![Key(g, n)] =
            [WinRow(@, 300) EXCEPT !.elder_wand = @ + 1, !.magic_stone = @ + 1,
                                   !.invisibility_cloak = @ + 1]]
    ELSE T
BossLoss(T, g, n) ==
    IF HasRow(T, g, n) THEN [T EXCEPT ![Key(g, n)] = LoseRow(@, 100)] ELSE T

\* --- record_duel_result on a storage that can fail ---

\* The statement of the transaction that raises, "none" when none does.
ErrorPoints == {"none", "winner", "loser", "item", "commit"}

\* No storage error: no get_player_data failed, no statement raised.
NoError == [get |-> {}, at |-> "none"]

\* get_player_data that raises sqlite3.Error inserts nothing and returns
\* the default data.
GetPlayerDataFailing(T, g, n, fails) ==
    IF fails THEN T ELSE GetPlayerData(T, g, n)

\* An UPDATE ... WHERE group_id = ? AND player_name = ? changes the row it
\* finds, and nothing when there is none.
UpdateRows(T, g, n, T_updated) == IF HasRow(T, g, n) THEN T_updated ELSE T

\* The uncommitted table of the transaction when the statement `at` raises:
\* the UPDATEs before it have been executed.
Uncommitted(T, g, winner, loser, winner_points, loser_points, used_item, at) ==
    LET T1 == UpdateRows(T, g, winner,
                         [T EXCEPT ![Key(g, winner)] = WinRow(@, winner_points)])
        T2 == UpdateRows(T1, g, loser,
                         [T1 EXCEPT ![Key(g, loser)] = LoseRow(@, loser_points)])
        owner == IF used_item = "magic_stone" THEN loser ELSE winner
        T3 == UpdateRows(T2, g, owner, ConsumeItem(T2, g, winner, loser, used_item))
    IN  CASE at = "winner" -> T
          [] at = "loser" -> T1
          [] at = "item" -> T2
          [] OTHER -> T3

\* record_duel_result with the storage errors err: the two get_player_data
\* swallow theirs; an error in the transaction leaves `with conn` by the
\* rollback and the call returns (0, 0).
RecordDuelFailing(T, g, winner, loser, winner_points, loser_points, used_item, err) ==
    LET T0 == GetPlayerDataFailing(
                  GetPlayerDataFailing(T, g, winner, "winner" \in err.get),
                  g, loser, "loser" \in err.get)
        done == Uncommitted(T0, g, winner, loser, winner_points, loser_points,
                            used_item, err.at)
    IN  IF err.at = "none"
        THEN [table |-> done,
              out |-> RecordDuelReturn(winner_points, loser_points)]
        ELSE [table |-> T0, out |-> <<0, 0>>]

\* The latest call on the store: what was called, in which group, for whom,
\* with which points; roll is the success roll of a sneak attack; first is
\* who struck first in a combat, cast the powers of the spells of the attack
\* and of the counter-attack, power its total_magic_power; out is what
\* record_duel_result returned; item and err are the used_item and the
\* storage errors of a record_duel_result whose storage can fail.
DCall(op, n, g, p, q, wp, lp) ==
    [op |-> op, n |-> n, g |-> g, p |-> p, q |-> q, wp |-> wp, lp |-> lp,
     roll |-> FALSE, first |-> "none", cast |-> <<>>, power |-> 0,
     out |-> <<0, 0>>, item |-> NoItem, err |-> NoError]
NoDCall == DCall("none", 0, "none", "none", "none", 0, 0)

NoDuel == [g |-> "none", p1 |-> "none", p2 |-> "none", path |-> "none"]

\* A call of record_duel_result and what the storage does to it.
RecordDuelResultCall(g, winner, loser, winner_points, loser_points, used_item, err) ==
    LET r == RecordDuelFailing(players, g, winner, loser, winner_points,
                               loser_points, used_item, err)
    IN  /\ ops < MaxOps
        /\ ops' = ops + 1
        /\ UNCHANGED duel
        /\ players' = r.table
        /\ drec' = [DCall("record", ops + 1, g, winner, loser, winner_points,
                          loser_points)
                      EXCEPT !.out = r.out, !.item = used_item, !.err = err]

\* --- a duel: DuelManager.start_duel_thread, then HarryPotterDuel.start_duel ---

\* A mutant of the cloak check: player1's cloak wins even against a cloak.
DuelPathFirstCloak(T, g, p1, p2) ==
    IF p2 = Boss THEN "boss"
    ELSE IF T[Key(g, p1)].invisibility_cloak > 0 THEN "cloak1"
    ELSE IF T[Key(g, p2)].invisibility_cloak > 0 THEN "cloak2"
    ELSE "combat"

\* Which way start_duel goes, from the rows it read at its start.
DuelPath(T, g, p1, p2) ==
    IF p2 = Boss THEN "boss"
    ELSE IF T[Key(g, p1)].invisibility_cloak > 0 /\ T[Key(g, p2)].invisibility_cloak = 0
    THEN "cloak1"
    ELSE IF T[Key(g, p1)].invisibility_cloak = 0 /\ T[Key(g, p2)].invisibility_cloak > 0
    THEN "cloak2"
    ELSE "combat"

\* The duel thread starts (there is none alive) and reads both players' rows.
StartDuel(g, p1, p2) ==
    LET T == GetPlayerData(GetPlayerData(players, g, p1), g, p2)
    IN  /\ duel = NoDuel
        /\ ops < MaxOps
        /\ ops' = ops + 1
        /\ players' = T
        /\ duel' = [g |-> g, p1 |-> p1, p2 |-> p2, path |-> DuelPath(T, g, p1, p2)]
        /\ UNCHANGED drec

\* The Boss fight ends, the player having won or lost.
BossSettle(win) ==
    /\ duel.path = "boss"
    /\ players' = IF win THEN BossWin(players, duel.g, duel.p1)
                  ELSE BossLoss(players, duel.g, duel.p1)
    /\ drec' = DCall(IF win THEN "boss_win" ELSE "boss_loss", ops, duel.g,
                     duel.p1, Boss, IF win THEN 300 ELSE 0, IF win THEN 0 ELSE 100)
    /\ duel' = NoDuel
    /\ UNCHANGED ops

\* The only player with an invisibility cloak wins at once, 30 points.
CloakSettle ==
    LET winner == IF duel.path = "cloak1" THEN duel.p1 ELSE duel.p2
        loser == IF duel.path = "cloak1" THEN duel.p2 ELSE duel.p1
    IN  /\ duel.path \in {"cloak1", "cloak2"}
        /\ players' = RecordDuelResult(players, duel.g, winner, loser, 30, 30,
                                       "invisibility_cloak")
        /\ drec' = [DCall("record", ops, duel.g, winner, loser, 30, 30)
                      EXCEPT !.out = RecordDuelReturn(30, 30)]
        /\ duel' = NoDuel
        /\ UNCHANGED ops

\* The powers of self.spells, and the ones select_spell draws here: the
\* weakest and the strongest.
Spells == {10, 25, 40, 55, 70, 85, 100}
SpellDraws ==
    { p \in Spells : (\A q \in Spells : p <= q) \/ (\A q \in Spells : p >= q) }

\* The points a defence spell adds to total_magic_power.
DefensePower == 20

\* A mutant of the exchange: the defence spell adds nothing.
TotalMagicPowerSpellsOnly(spell, defense_success, counter_spell) ==
    IF defense_success THEN spell + counter_spell ELSE spell

\* total_magic_power after the exchange.
TotalMagicPower(spell, defense_success, counter_spell) ==
    IF defense_success THEN spell + DefensePower + counter_spell ELSE spell

\* A mutant of the item effects: the elder wand has no effect when the
\* magic stone has one.
ItemEffectsExclusive(total_magic_power, stone, wand) ==
    [loser_points |-> IF stone THEN 0 ELSE total_magic_power,
     winner_points |-> IF wand /\ ~stone THEN total_magic_power * 5
                       ELSE total_magic_power,
     final_used_item |-> IF stone THEN "magic_stone"
                         ELSE IF wand THEN "elder_wand" ELSE NoItem]

\* The item effects after the exchange: stone is whether the loser holds a
\* magic stone, wand whether the winner holds an elder wand; final_used_item
\* is used_item_winner or used_item_loser.
ItemEffects(total_magic_power, stone, wand) ==
    [loser_points |-> IF stone THEN 0 ELSE total_magic_power,
     winner_points |-> IF wand THEN total_magic_power * 5 ELSE total_magic_power,
     final_used_item |-> IF wand THEN "elder_wand"
                         ELSE IF stone THEN "magic_stone" ELSE NoItem]

\* The exchange of spells: who attacks first, with which spell, whether the
\* defence holds, and the counter spell if it does.
CombatSettle(p1_first, spell, defense_success, counter_spell) ==
    LET g == duel.g
        attacker == IF p1_first THEN duel.p1 ELSE duel.p2
        defender == IF p1_first THEN duel.p2 ELSE duel.p1
        total_magic_power == TotalMagicPower(spell, defense_success, counter_spell)
        winner == IF defense_success THEN defender ELSE attacker
        loser == IF defense_success THEN attacker ELSE defender
        \* get_player_rank(challenger), get_player_data(winner), (loser)
        T == GetPlayerData(GetPlayerData(GetPlayerData(players, g, duel.p1),
                                         g, winner), g, loser)
        eff == ItemEffects(total_magic_power, T[Key(g, loser)].magic_stone > 0,
                           T[Key(g, winner)].elder_wand > 0)
    IN  /\ duel.path = "combat"
        /\ players' = RecordDuelResult(T, g, winner, loser, eff.winner_points,
                                       eff.loser_points, eff.final_used_item)
        /\ drec' = [DCall("record", ops, g, winner, loser, eff.winner_points,
                          eff.loser_points)
                      EXCEPT !.first = attacker,
                             !.cast = IF defense_success THEN <<spell, counter_spell>>
                                      ELSE <<spell>>,
                             !.power = total_magic_power,
                             !.out = RecordDuelReturn(eff.winner_points,
                                                      eff.loser_points)]
        /\ duel' = NoDuel
        /\ UNCHANGED ops

\* --- attempt_sneak_attack ---

Items == {"elder_wand", "magic_stone", "invisibility_cloak"}

\* The samples of random.randint(10, 50).
Randints == {10, 50}

\* A mutant of the sneak attack: the target can lose all its points.
MaxPointsTargetCanLoseAll(target_score) == target_score

\* max_points_target_can_lose
MaxPointsTargetCanLose(target_score) == Max(0, target_score - 1)

\* A mutant of the sneak attack: the stolen points are not clamped to what
\* the target can lose.
PointsExchangedUnclamped(attacker_score, target_score, randint) ==
    LET score_difference == IF attacker_score > target_score
                            THEN attacker_score - target_score
                            ELSE target_score - attacker_score
    IN  Max(randint, score_difference \div 10)

\* actual_points_exchanged; int(score_difference * 0.1) is the tenth, rounded down.
PointsExchanged(attacker_score, target_score, randint) ==
    LET score_difference == IF attacker_score > target_score
                            THEN attacker_score - target_score
                            ELSE target_score - attacker_score
        potential_points_stolen == Max(randint, score_difference \div 10)
    IN  Min(potential_points_stolen, MaxPointsTargetCanLose(target_score))

\* The two UPDATEs that move points from the target to the attacker.
MovePoints(T, g, attacker, target, points) ==
    LET T1 == [T EXCEPT ![Key(g, attacker)].score = @ + points]
    IN  [T1 EXCEPT ![Key(g, target)].score = @ - points]

\* A mutant of the item theft: the attacker gets the item, the target keeps it.
MoveItemCopying(T, g, attacker, target, item) ==
    [T EXCEPT ![Key(g, attacker)][item] = @ + 1]

\* The two UPDATEs that move one item from the target to the attacker.
MoveItem(T, g, attacker, target, item) ==
    LET T1 == [T EXCEPT ![Key(g, target)][item] = Max(0, @ - 1)]
    IN  [T1 EXCEPT ![Key(g, attacker)][item] = @ + 1]

\* A mutant of the sneak attack: it fetches both players with
\* get_player_data, which inserts the rows it does not find.
AttemptSneakAttackCreating(g, attacker, target, roll_successful, randint, item_roll, item) ==
    /\ ops < MaxOps
    /\ ops' = ops + 1
    /\ UNCHANGED duel
    /\ players' = GetPlayerData(GetPlayerData(players, g, attacker), g, target)
    /\ drec' = DCall("sneak_failed", ops + 1, g, attacker, target, 0, 0)

\* roll_successful is random.random() < success_prob, item_roll is
\* random.random() < item_steal_prob, item is what random.choices picks.
AttemptSneakAttack(g, attacker, target, roll_successful, randint, item_roll, item) ==
    LET both == HasRow(players, g, attacker) /\ HasRow(players, g, target)
        points == PointsExchanged(players[Key(g, attacker)].score,
                                  players[Key(g, target)].score, randint)
        Sneak(op, wp) == [DCall(op, ops + 1, g, attacker, target, wp, wp)
                             EXCEPT !.roll = roll_successful]
    IN  /\ ops < MaxOps
        /\ ops' = ops + 1
        /\ UNCHANGED duel
        /\ IF ~both
           THEN /\ drec' = DCall("sneak_refused", ops + 1, g, attacker, target, 0, 0)
                /\ UNCHANGED players
           ELSE IF roll_successful /\ points > 0
           THEN /\ players' = MovePoints(players, g, attacker, target, points)
                /\ drec' = Sneak("sneak", points)
           ELSE IF item_roll /\ players[Key(g, target)][item] > 0
           THEN /\ players' = MoveItem(players, g, attacker, target, item)
                /\ drec' = Sneak("sneak_item", 0)
           ELSE /\ drec' = Sneak("sneak_failed", 0)
                /\ UNCHANGED players

\* --- the success probability of a sneak attack ---

\* Bounds: the largest rank and the largest number of players of a group.
MaxRank == 4
MaxPlayers == 4

\* A probability, as the fraction num / den with den > 0.
Frac(num, den) == [num |-> num, den |-> den]
FracLE(x, y) == x.num * y.den <= y.num * x.den
FracMin(x, y) == IF FracLE(x, y) THEN x ELSE y
FracMax(x, y) == IF FracLE(x, y) THEN y ELSE x
FracAdd(x, y) == Frac(x.num * y.den + y.num * x.den, x.den * y.den)

\* The ranks a SELECT can give, Null when it gives no row, and the counts
\* of players.
Ranks == 1..MaxRank
RankInputs == Ranks \cup {Null}
PlayerCounts == 0..MaxPlayers

\* A mutant of success_prob: the bonus is not capped.
SuccessProbUncapped(attacker_rank, target_rank, total_players) ==
    LET bonus == IF /\ attacker_rank # Null
                    /\ target_rank # Null
                    /\ total_players > 0
                    /\ attacker_rank > target_rank
                 THEN Frac((attacker_rank - target_rank) * 4, total_players * 10)
                 ELSE Frac(0, 1)
    IN  FracMax(Frac(0, 1), FracMin(Frac(1, 1), FracAdd(Frac(3, 10), bonus)))

\* success_prob: 0.3, plus min((rank_difference / total_players) * 0.4, 0.4)
\* when both ranks are known, there are players and the attacker's rank is
\* the larger number; then clamped into 0..1.
SuccessProb(attacker_rank, target_rank, total_players) ==
    LET bonus == IF /\ attacker_rank # Null
                    /\ target_rank # Null
                    /\ total_players > 0
                    /\ attacker_rank > target_rank
                 THEN FracMin(Frac((attacker_rank - target_rank) * 4,
                                   total_players * 10), Frac(4, 10))
                 ELSE Frac(0, 1)
    IN  FracMax(Frac(0, 1), FracMin(Frac(1, 1), FracAdd(Frac(3, 10), bonus)))

\* attempt_sneak_attack computes its success probability.
ComputeSuccessProb(attacker_rank, target_rank, total_players) ==
    pcall' = [fn |-> "success_prob",
              args |-> <<attacker_rank, target_rank, total_players>>,
              out |-> SuccessProb(attacker_rank, target_rank, total_players)]

\* --- the queries: get_rank_list, get_player_rank ---

\* The rows WHERE group_id = g selects.
GroupKeys(T, g) == { k \in DOMAIN T : k[1] = g }

\* get_rank_list: the group's rows ORDER BY score DESC, as the lists the
\* query can give (rows of equal score come in either order).
GetRankList(T, g) ==
    LET keys == GroupKeys(T, g)
        n == Cardinality(keys)
        Row(k) == [name |-> k[2], row |-> T[k]]
    IN  { l \in [1..n -> {Row(k) : k \in keys}] :
            /\ \A i, j \in 1..n : i # j => l[i] # l[j]
            /\ \A i, j \in 1..n : i < j => l[i].row.score >= l[j].row.score }

\* A mutant of get_player_rank: the scores of every group are counted.
GetPlayerRankAllGroups(T, g, n) ==
    LET T1 == GetPlayerData(T, g, n)
    IN  Cardinality({ k \in DOMAIN T1 : T1[k].score > T1[Key(g, n)].score }) + 1

\* get_player_rank: get_player_data, then COUNT(*) + 1 of the group's rows
\* with a higher score.
GetPlayerRank(T, g, n) ==
    LET T1 == GetPlayerData(T, g, n)
    IN  Cardinality({ k \in GroupKeys(T1, g) :
                        T1[k].score > T1[Key(g, n)].score }) + 1

\* --- change_player_name ---

\* The names a player can take.
NewNames == PlayerNames \cup {"c"}

\* A mutant of change_player_name: the new name is not looked up, the row
\* that has it is replaced.
ChangePlayerNameOverwriting(g, old_name, new_name) ==
    /\ ops < MaxOps
    /\ ops' = ops + 1
    /\ UNCHANGED duel
    /\ IF HasRow(players, g, old_name)
       THEN /\ players' = [k \in (DOMAIN players \ {Key(g, old_name)})
                                   \cup {Key(g, new_name)} |->
                              IF k = Key(g, new_name) THEN players[Key(g, old_name)]
                              ELSE players[k]]
            /\ drec' = DCall("rename", ops + 1, g, old_name, new_name, 0, 0)
       ELSE /\ drec' = DCall("rename_refused", ops + 1, g, old_name, new_name, 0, 0)
            /\ UNCHANGED players

\* change_player_name: "rename" stands for the return of True,
\* "rename_refused" for the return of False.
ChangePlayerName(g, old_name, new_name) ==
    /\ ops < MaxOps
    /\ ops' = ops + 1
    /\ UNCHANGED duel
    /\ IF HasRow(players, g, old_name) /\ ~HasRow(players, g, new_name)
       THEN /\ players' = [k \in (DOMAIN players \ {Key(g, old_name)})
                                   \cup {Key(g, new_name)} |->
                              IF k = Key(g, new_name) THEN players[Key(g, old_name)]
                              ELSE players[k]]
            /\ drec' = DCall("rename", ops + 1, g, old_name, new_name, 0, 0)
       ELSE /\ drec' = DCall("rename_refused", ops + 1, g, old_name, new_name, 0, 0)
            /\ UNCHANGED players

\* --- the tables the store can hold when the program starts ---

RECURSIVE BossLosses(_, _, _, _)
BossLosses(T, g, n, k) ==
    IF k = 0 THEN T ELSE BossLosses(BossLoss(T, g, n), g, n, k - 1)

\* Player "a" of group "g1" after `lost` lost Boss fights and then, if `won`,
\* a won one.
AfterBossFights(lost, won) ==
    LET T0 == GetPlayerData(GetPlayerData(NoPlayers, "g1", "a"), "g1", Boss)
        T1 == BossLosses(T0, "g1", "a", lost)
    IN  IF won THEN BossWin(T1, "g1", "a") ELSE T1

\* Player "a" after a won Boss fight and then so many lost ones that the
\* score is back at 1: a row at the floor that holds one item of each kind.
AtFloorWithItems == BossLosses(AfterBossFights(0, TRUE), "g1", "a", 13)

StoredTables ==
    {NoPlayers, AtFloorWithItems}
        \cup { AfterBossFights(lost, won) : lost \in {0, 9, 10}, won \in BOOLEAN }

DuelIdle ==
    /\ players = NoPlayers
    /\ duel = NoDuel
    /\ ops = 0
    /\ drec = NoDCall

\* Nothing has been computed yet.
NoPCall == [fn |-> "none", args |-> <<>>, out |-> <<>>]

\* --- DuelManager: one duel thread at a time ---

\* Bound: the number of duel threads one behaviour starts.
MaxThreads == 3

DuelThreads == 1..MaxThreads

\* The threads that call start_duel_thread.
Callers == {"c1", "c2"}

\* A duel thread: not yet created, inside run_duel's try block, at its
\* finally block, past it (it has cleared _duel_thread and has not yet
\* returned), and ended.
ThreadStates == {"unstarted", "running", "finishing", "cleared", "dead"}

\* Thread.is_alive(): started and not yet ended.
Alive == {"running", "finishing", "cleared"}

\* A mutant of start_duel_thread's test: no thread ever counts as running.
DuelRunningNever(dt, th) == FALSE

\* self._duel_thread is not None and self._duel_thread.is_alive()
DuelRunning(dt, th) == dt # Null /\ th[dt] \in Alive

NoStart == [caller |-> "none", ok |-> FALSE, thread |-> Null]

\* start_duel_thread enters `with self._duel_lock`.
StartDuelThreadLock(c) ==
    /\ spc[c] = "idle"
    /\ duel_lock = Free
    /\ \E t \in DuelThreads : threads[t] = "unstarted"
    /\ duel_lock' = c
    /\ spc' = [spc EXCEPT ![c] = "locked"]
    /\ UNCHANGED <<duel_thread, threads, sret>>

\* Inside the lock: return False when a duel thread is alive, else create
\* the thread, start it and return True.
StartDuelThread(c) ==
    /\ spc[c] = "locked"
    /\ spc' = [spc EXCEPT ![c] = "idle"]
    /\ duel_lock' = Free
    /\ IF DuelRunning(duel_thread, threads)
       THEN /\ sret' = [caller |-> c, ok |-> FALSE, thread |-> Null]
            /\ UNCHANGED <<duel_thread, threads>>
       ELSE LET t == CHOOSE u \in DuelThreads :
                        /\ threads[u] = "unstarted"
                        /\ \A v \in DuelThreads : threads[v] = "unstarted" => u <= v
            IN  /\ duel_thread' = t
                /\ threads' = [threads EXCEPT ![t] = "running"]
                /\ sret' = [caller |-> c, ok |-> TRUE, thread |-> t]

\* run_duel leaves its try block: the duel is over, or it has raised.
RunDuelEnds(t) ==
    /\ threads[t] = "running"
    /\ threads' = [threads EXCEPT ![t] = "finishing"]
    /\ UNCHANGED <<duel_lock, duel_thread, spc, sret>>

\* finally: with self._duel_lock: self._duel_thread = None
RunDuelFinally(t) ==
    /\ threads[t] = "finishing"
    /\ duel_lock = Free
    /\ duel_thread' = Null
    /\ threads' = [threads EXCEPT ![t] = "cleared"]
    /\ UNCHANGED <<duel_lock, spc, sret>>

\* run_duel logs and returns: the thread ends.
RunDuelReturns(t) ==
    /\ threads[t] = "cleared"
    /\ threads' = [threads EXCEPT ![t] = "dead"]
    /\ UNCHANGED <<duel_lock, duel_thread, spc, sret>>

ManagerIdle ==
    /\ duel_lock = Free
    /\ duel_thread = Null
    /\ threads = [t \in DuelThreads |-> "unstarted"]
    /\ spc = [c \in Callers |-> "idle"]
    /\ sret = NoStart

\* --- PerplexityManager: one request per conversation at a time ---

\* Bound: the number of request threads one behaviour starts.
MaxRequests == 3

RequestThreads == 1..MaxRequests

\* thread_key = f"{receiver}_{chat_id}"
ThreadKeys == {"k1", "k2"}

NoKey == "none"

\* A mutant of start_request's test: no request ever counts as alive.
RequestAliveNever(dict, run, thread_key) == FALSE

\* thread_key in self.threads and self.threads[thread_key].is_alive()
RequestAlive(dict, run, thread_key) ==
    /\ dict[thread_key] # Null
    /\ run[dict[thread_key]].state = "running"

NoRequest == [caller |-> "none", key |-> NoKey, ok |-> FALSE, notice |-> "none",
              thread |-> Null]

\* start_request computes thread_key and enters `with self.lock`.
StartRequestLock(c, thread_key) ==
    /\ pplx_pc[c].pc = "idle"
    /\ pplx_lock = Free
    /\ \E t \in RequestThreads : pplx_run[t].state = "unstarted"
    /\ pplx_lock' = c
    /\ pplx_pc' = [pplx_pc EXCEPT ![c] = [pc |-> "locked", key |-> thread_key]]
    /\ UNCHANGED <<pplx_threads, pplx_run, pplx_ret>>

\* Inside the lock: send the notice that a request is in progress and
\* return False, or send the waiting notice, store and start a thread and
\* return True.
StartRequest(c) ==
    LET thread_key == pplx_pc[c].key
    IN  /\ pplx_pc[c].pc = "locked"
        /\ pplx_pc' = [pplx_pc EXCEPT ![c] = [pc |-> "idle", key |-> NoKey]]
        /\ pplx_lock' = Free
        /\ IF RequestAlive(pplx_threads, pplx_run, thread_key)
           THEN /\ pplx_ret' = [caller |-> c, key |-> thread_key, ok |-> FALSE,
                                notice |-> "in_progress", thread |-> Null]
                /\ UNCHANGED <<pplx_threads, pplx_run>>
           ELSE LET t == CHOOSE u \in RequestThreads :
                            /\ pplx_run[u].state = "unstarted"
                            /\ \A v \in RequestThreads :
                                   pplx_run[v].state = "unstarted" => u <= v
                IN  /\ pplx_threads' = [pplx_threads EXCEPT ![thread_key] = t]
                    /\ pplx_run' = [pplx_run EXCEPT
                                       ![t] = [state |-> "running", key |-> thread_key]]
                    /\ pplx_ret' = [caller |-> c, key |-> thread_key, ok |-> TRUE,
                                    notice |-> "please_wait", thread |-> t]

\* PerplexityThread.run returns: the thread ends.  Nothing removes it from
\* PerplexityManager.threads.
PerplexityThreadEnds(t) ==
    /\ pplx_run[t].state = "running"
    /\ pplx_run' = [pplx_run EXCEPT ![t].state = "dead"]
    /\ UNCHANGED <<pplx_lock, pplx_threads, pplx_pc, pplx_ret>>

PerplexityIdle ==
    /\ pplx_lock = Free
    /\ pplx_threads = [k \in ThreadKeys |-> Null]
    /\ pplx_run = [t \in RequestThreads |-> [state |-> "unstarted", key |-> NoKey]]
    /\ pplx_pc = [c \in Callers |-> [pc |-> "idle", key |-> NoKey]]
    /\ pplx_ret = NoRequest

(***************************************************************************)
(*                         THE REMINDER COMMAND                            *)
(***************************************************************************)

\* max_retries
MaxRetries == 3

\* What json.loads makes of a text: a list, an object, another JSON value,
\* or JSONDecodeError.
Loads == {"list", "object", "scalar", "invalid"}

\* An answer of the AI, by what the handler's three readings make of it:
\* whole is json.loads of the whole answer, bracket is json.loads of what
\* re.search(r'\[.*\]') matches (from the first "[" to the last "]"), brace
\* is json.loads of what re.search(r'\{.*\}') matches, "none" when there is
\* no match; entries is the length of the list the handler gets, valid the
\* number of its entries that pass the validation and add_reminder.
Answer(whole, bracket, brace, entries, valid) ==
    [whole |-> whole, bracket |-> bracket, brace |-> brace,
     entries |-> entries, valid |-> valid]

\* [{"type": "daily", "time": "09:00", "content": "tea"}]
PlainList == Answer("list", "list", "object", 1, 1)
\* []
EmptyList == Answer("list", "list", "none", 0, 0)
\* {"type": "daily", "time": "09:00", "content": "tea"}
PlainObject == Answer("object", "none", "object", 1, 1)
\* {"type": "daily", "time": "09:00", "content": "[tea] time"}
ObjectWithBrackets == Answer("object", "invalid", "object", 0, 0)
\* {"reminders": [{"type": "daily", "time": "09:00", "content": "tea"}]}
ObjectWithList == Answer("object", "list", "object", 1, 1)
\* Here it is: [{"type": "daily", "time": "09:00", "content": "tea"}]
TextAroundList == Answer("invalid", "list", "object", 1, 1)
\* Sorry, I cannot do that.
Prose == Answer("invalid", "none", "none", 0, 0)
\* 42
Scalar == Answer("scalar", "none", "none", 0, 0)

Answers ==
    {PlainList, EmptyList, PlainObject, ObjectWithBrackets, ObjectWithList,
     TextAroundList, Prose, Scalar}

\* json.loads(json_str): json_str is the list match if there is one, else
\* the object match wrapped in "[" and "]", else the whole answer.
LoadsJsonStr(a) ==
    IF a.bracket # "none" THEN a.bracket
    ELSE IF a.brace # "none"
    THEN (IF a.brace = "object" THEN "list" ELSE "invalid")
    ELSE a.whole

\* ai_parsing_success: the parsed data is a dict or a list.
AiParsingSuccess(a) == LoadsJsonStr(a) \in {"list", "object"}

\* handle_reminder before the message: pc is where it stands, asked the
\* answers of get_answer so far, sent the reply it sent, added the number
\* of reminders it added, ret its return.
NoReminderCommand ==
    [pc |-> "idle", retry_count |-> 0, asked |-> <<>>, sent |-> "none",
     added |-> 0, ret |-> "none"]

\* handle_reminder up to its loop: an empty message is answered with the
\* usage, a context without a chat model raises into the outer except.
HandleReminder(raw_text_empty, has_chat) ==
    /\ hr.pc = "idle"
    /\ hr' = IF raw_text_empty
             THEN [hr EXCEPT !.pc = "done", !.sent = "usage", !.ret = TRUE]
             ELSE IF ~has_chat
             THEN [hr EXCEPT !.pc = "done", !.sent = "error", !.ret = TRUE]
             ELSE [hr EXCEPT !.pc = "asking"]

\* One turn of the loop, with the answer a of ctx.chat.get_answer, and
\* after the loop the rest of the handler.
GetAnswer(a) ==
    /\ hr.pc = "asking"
    /\ hr.retry_count < MaxRetries
    /\ hr' = IF AiParsingSuccess(a)
             THEN [hr EXCEPT !.pc = "done", !.asked = Append(@, a),
                             !.sent = IF a.entries = 0 THEN "not_understood"
                                      ELSE "summary",
                             !.added = a.valid, !.ret = TRUE]
             ELSE IF hr.retry_count + 1 >= MaxRetries
             THEN [hr EXCEPT !.pc = "done", !.asked = Append(@, a),
                             !.retry_count = @ + 1, !.sent = "failure",
                             !.ret = TRUE]
             ELSE [hr EXCEPT !.asked = Append(@, a), !.retry_count = @ + 1]

\* get_answer raises: the outer except reports the error.
GetAnswerRaises ==
    /\ hr.pc = "asking"
    /\ hr' = [hr EXCEPT !.pc = "done", !.sent = "error", !.ret = TRUE]

(***************************************************************************)
(*                          THE STORAGE LOCKS                              *)
(***************************************************************************)

\* Bound: the number of storage operations each thread issues.
MaxCalls == 1

\* ReminderManager._db_lock and DuelRankSystem._db_lock, both class-wide
\* threading.Lock objects, which are not reentrant.
Locks == {"reminders", "duel_players"}

\* The thread that processes messages, the one that runs the schedule, and
\* the duel thread of DuelManager.
LockThreads == {"message", "scheduler", "duel"}

\* `with lock:` around a body: acquire, the body, release.
WithLock(l, body) == <<[do |-> "acquire", lock |-> l]>> \o body \o <<[do |-> "release", lock |-> l]>>

\* The locking of the operations of ReminderManager: one `with
\* self._db_lock` each; the sends of the check need no lock.
ReminderScript == WithLock("reminders", <<>>)

\* The locking of DuelRankSystem: the constructor's _init_db,
\* get_player_data, get_rank_list and change_player_name lock once;
\* get_player_rank and record_duel_result call get_player_data before
\* their own `with self._db_lock`.
InitDbScript == WithLock("duel_players", <<>>)
GetPlayerDataScript == WithLock("duel_players", <<>>)
GetRankListScript == WithLock("duel_players", <<>>)
GetPlayerRankScript == GetPlayerDataScript \o WithLock("duel_players", <<>>)
RecordDuelResultScript ==
    GetPlayerDataScript \o GetPlayerDataScript \o WithLock("duel_players", <<>>)

\* A mutant of the Boss fight: the rank is asked of get_player_rank inside
\* the `with rank_system._db_lock` of the Boss fight.
BossFightScriptNested ==
    InitDbScript \o GetPlayerDataScript \o GetPlayerDataScript
        \o WithLock("duel_players", GetPlayerRankScript)

\* start_duel against the Boss: the two get_player_data, then the UPDATE
\* and the rank query by SQL of its own under one lock.
BossFightScript ==
    InitDbScript \o GetPlayerDataScript \o GetPlayerDataScript
        \o WithLock("duel_players", <<>>)

\* start_duel won by the cloak: _handle_direct_win.
CloakDuelScript ==
    InitDbScript \o GetPlayerDataScript \o GetPlayerDataScript
        \o RecordDuelResultScript \o GetPlayerDataScript \o GetPlayerRankScript

\* start_duel with the exchange of spells.
CombatDuelScript ==
    InitDbScript \o GetPlayerDataScript \o GetPlayerDataScript
        \o GetPlayerRankScript \o GetRankListScript
        \o GetPlayerDataScript \o GetPlayerDataScript \o RecordDuelResultScript
        \o GetPlayerRankScript \o GetPlayerDataScript \o GetPlayerDataScript

\* The operations each thread issues.
Operations ==
    [message |-> {"add_reminder", "list_reminders", "delete_reminder",
                  "delete_all_reminders", "get_rank_list", "get_player_stats",
                  "change_player_name", "attempt_sneak_attack"},
     scheduler |-> {"check_and_trigger_reminders"},
     duel |-> {"boss_fight", "cloak_duel", "combat_duel"}]

\* The locking of an operation, in the order of its code.
Script(op) ==
    CASE op \in {"add_reminder", "list_reminders", "delete_reminder",
                 "delete_all_reminders", "check_and_trigger_reminders"}
             -> ReminderScript
      [] op = "get_rank_list" -> InitDbScript \o GetRankListScript
      [] op = "get_player_stats" -> InitDbScript \o GetPlayerRankScript
      [] op \in {"change_player_name", "attempt_sneak_attack"}
             -> InitDbScript \o WithLock("duel_players", <<>>)
      [] op = "boss_fight" -> BossFightScript
      [] op = "cloak_duel" -> CloakDuelScript
      [] op = "combat_duel" -> CombatDuelScript
      [] OTHER -> <<>>

\* A thread outside every storage operation.
NoOperation == [op |-> "none", pc |-> 1, calls |-> 0]

\* What thread t does next: the step of its script, or "return".
NextStep(t) ==
    IF doing[t].pc <= Len(Script(doing[t].op)) THEN Script(doing[t].op)[doing[t].pc]
    ELSE [do |-> "return", lock |-> "none"]

\* Thread t calls an operation.
CallOperation(t, op) ==
    /\ doing[t].op = "none"
    /\ doing[t].calls < MaxCalls
    /\ doing' = [doing EXCEPT ![t] = [op |-> op, pc |-> 1, calls |-> @.calls + 1]]
    /\ UNCHANGED held

\* Thread t enters `with lock:`; Lock.acquire blocks while the lock is
\* held, by whomever.
Acquire(t) ==
    /\ doing[t].op # "none"
    /\ NextStep(t).do = "acquire"
    /\ held[NextStep(t).lock] = Free
    /\ held' = [held EXCEPT ![NextStep(t).lock] = t]
    /\ doing' = [doing EXCEPT ![t].pc = @ + 1]

\* Thread t leaves `with lock:` at the end of the body.
Release(t) ==
    /\ doing[t].op # "none"
    /\ NextStep(t).do = "release"
    /\ held' = [held EXCEPT ![NextStep(t).lock] = Free]
    /\ doing' = [doing EXCEPT ![t].pc = @ + 1]

\* The body raises: `with` releases every lock on the way out, and the
\* except clause of the operation ends it.
Raise(t) ==
    /\ doing[t].op # "none"
    /\ \E l \in Locks : held[l] = t
    /\ held' = [l \in Locks |-> IF held[l] = t THEN Free ELSE held[l]]
    /\ doing' = [doing EXCEPT ![t].pc = Len(Script(doing[t].op)) + 1]

\* The operation returns.
Return(t) ==
    /\ doing[t].op # "none"
    /\ NextStep(t).do = "return"
    /\ doing' = [doing EXCEPT ![t].op = "none", ![t].pc = 1]
    /\ UNCHANGED held

\* No add_reminder call yet.
NoAdd == [wxid |-> "nobody", data |-> <<>>, roomid |-> NoRoom, msg |-> "none"]

RestIdle ==
    /\ pcall = NoPCall
    /\ ManagerIdle
    /\ PerplexityIdle
    /\ areq = NoAdd
    /\ failed = {}
    /\ hr = NoReminderCommand
    /\ held = [l \in Locks |-> Free]
    /\ doing = [t \in LockThreads |-> NoOperation]

(***************************************************************************)
(*                           THE SPECIFICATIONS                            *)
(***************************************************************************)

\* The reminder engine at construction: an empty table, nothing running.
ReminderIdle ==
    /\ clock = Instant(1, 8, 0)
    /\ reminders = <<>>
    /\ nextId = 1
    /\ db_lock = Free
    /\ tpc = [t \in Tickers |-> "idle"]
    /\ tnow = [t \in Tickers |-> 0]
    /\ tfired = [t \in Tickers |-> NothingFired]
    /\ sent = <<>>
    /\ ret = NoCall

InitRouter ==
    /\ commands \in { SortByPriority(cs) : cs \in CommandLists }
    /\ routed = NoMsg
    /\ ReminderIdle
    /\ DuelIdle
    /\ RestIdle

NextRouter ==
    /\ routed = NoMsg
    /\ \E m \in Messages, beh \in [1..Len(commands) -> Outcomes], ai \in BOOLEAN :
          ProcessMsg(m, beh, ai)

SpecRouter == InitRouter /\ [][NextRouter]_vars

InitReminder ==
    /\ commands = <<>>
    /\ routed = NoMsg
    /\ ReminderIdle
    /\ DuelIdle
    /\ RestIdle

\* The steps of the engine for callers `users`, chats `rooms` and the
\* check_and_trigger_reminders invocations `tickers`.
ReminderStep(users, rooms, tickers) ==
    \/ \E wxid \in users, data \in AddInputs, roomid \in rooms :
          AddReminder(wxid, data, roomid) /\ UNCHANGED <<routerVars, duelVars, restVars>>
    \/ \E wxid \in users, reminder_id \in ReminderRefs :
          DeleteReminder(wxid, reminder_id) /\ UNCHANGED <<routerVars, duelVars, restVars>>
    \/ \E wxid \in users :
          DeleteAllReminders(wxid) /\ UNCHANGED <<routerVars, duelVars, restVars>>
    \/ \E t \in tickers : TickStart(t) /\ UNCHANGED <<routerVars, duelVars, restVars>>
    \/ \E t \in tickers : TickSelect(t) /\ UNCHANGED <<routerVars, duelVars, restVars>>
    \/ \E t \in tickers : TickCommit(t) /\ UNCHANGED <<routerVars, duelVars, restVars>>
    \/ Advance /\ UNCHANGED <<routerVars, duelVars, restVars>>

\* The main loop runs the pending jobs one after another: one invocation of
\* check_and_trigger_reminders at a time.
NextReminder == ReminderStep(Users, Rooms, {"t1"})

SpecReminder == InitReminder /\ [][NextReminder]_vars

\* add_reminder with its arguments and its message on record, at every
\* time of the clock.
AddReminderCall(wxid, data, roomid) ==
    /\ AddReminder(wxid, data, roomid)
    /\ areq' = [wxid |-> wxid, data |-> data, roomid |-> roomid,
                msg |-> Validate(data, clock)]

NextAdd ==
    \/ \E wxid \in Users, data \in AddInputs, roomid \in Rooms :
          /\ AddReminderCall(wxid, data, roomid)
          /\ UNCHANGED <<routerVars, duelVars, pcall, managerVars, perplexityVars, failed, hr, lockVars>>
    \/ Advance /\ UNCHANGED <<routerVars, duelVars, restVars>>

SpecAdd == InitReminder /\ [][NextAdd]_vars

\* Two invocations of check_and_trigger_reminders from different threads, for one user's
\* private reminders.
NextOverlap == ReminderStep({"u1"}, {NoRoom}, Tickers)

SpecOverlap == InitReminder /\ [][NextOverlap]_vars

\* The reminder engine over a table of earlier runs.
StoredIdle(tables) ==
    /\ clock = Instant(1, 8, 0)
    /\ reminders \in tables
    /\ nextId = 1
    /\ db_lock = Free
    /\ tpc = [t \in Tickers |-> "idle"]
    /\ tnow = [t \in Tickers |-> 0]
    /\ tfired = [t \in Tickers |-> NothingFired]
    /\ sent = [id \in DOMAIN reminders |-> <<>>]
    /\ ret = NoCall

InitTick ==
    /\ commands = <<>>
    /\ routed = NoMsg
    /\ StoredIdle(StoredReminders)
    /\ DuelIdle
    /\ RestIdle

\* The periodic check over two weeks, each send failing or not.
NextTick ==
    \/ FreshMinute /\ TickStart("t1") /\ UNCHANGED <<routerVars, duelVars, restVars>>
    \/ \E failing \in SUBSET {StoredOnce, StoredDaily, StoredWeekly} :
          /\ TickSelectSending("t1", failing)
          /\ UNCHANGED <<routerVars, duelVars, pcall, managerVars, perplexityVars, areq, hr, lockVars>>
    \/ TickCommit("t1") /\ UNCHANGED <<routerVars, duelVars, restVars>>
    \/ Advance /\ UNCHANGED <<routerVars, duelVars, restVars>>
    \/ AdvanceWeek /\ UNCHANGED <<routerVars, duelVars, restVars>>

SpecTick == InitTick /\ [][NextTick]_vars

InitForeign ==
    /\ commands = <<>>
    /\ routed = NoMsg
    /\ StoredIdle(ForeignReminders)
    /\ DuelIdle
    /\ RestIdle

\* The periodic check over a table that holds the foreign row.
NextForeign ==
    \/ FreshMinute /\ TickStart("t1") /\ UNCHANGED <<routerVars, duelVars, restVars>>
    \/ TickSelect("t1") /\ UNCHANGED <<routerVars, duelVars, restVars>>
    \/ TickCommit("t1") /\ UNCHANGED <<routerVars, duelVars, restVars>>
    \/ Advance /\ UNCHANGED <<routerVars, duelVars, restVars>>
    \/ AdvanceWeek /\ UNCHANGED <<routerVars, duelVars, restVars>>

SpecForeign == InitForeign /\ [][NextForeign]_vars

\* The duel store holds what earlier runs of the program left in it.
InitDuel ==
    /\ commands = <<>>
    /\ routed = NoMsg
    /\ ReminderIdle
    /\ RestIdle
    /\ players \in StoredTables
    /\ duel = NoDuel
    /\ ops = 0
    /\ drec = NoDCall

NextDuel ==
    \/ \E g \in Groups, p1 \in PlayerNames, p2 \in PlayerNames \cup {Boss} :
          StartDuel(g, p1, p2) /\ UNCHANGED <<routerVars, reminderVars, restVars>>
    \/ \E win \in BOOLEAN :
          BossSettle(win) /\ UNCHANGED <<routerVars, reminderVars, restVars>>
    \/ CloakSettle /\ UNCHANGED <<routerVars, reminderVars, restVars>>
    \/ \E p1_first, defense_success \in BOOLEAN, spell, counter_spell \in SpellDraws :
          /\ CombatSettle(p1_first, spell, defense_success, counter_spell)
          /\ UNCHANGED <<routerVars, reminderVars, restVars>>
    \/ \E g \in Groups, attacker, target \in PlayerNames,
           roll_successful, item_roll \in BOOLEAN, randint \in Randints,
           item \in Items :
          /\ AttemptSneakAttack(g, attacker, target, roll_successful, randint,
                                item_roll, item)
          /\ UNCHANGED <<routerVars, reminderVars, restVars>>
    \/ \E g \in Groups, old_name \in PlayerNames, new_name \in NewNames :
          ChangePlayerName(g, old_name, new_name) /\ UNCHANGED <<routerVars, reminderVars, restVars>>

SpecDuel == InitDuel /\ [][NextDuel]_vars

\* record_duel_result, called on the stored tables with every storage error.
NextRecord ==
    \E g \in Groups, winner, loser \in PlayerNames, used_item \in Items \cup {NoItem},
       get \in SUBSET {"winner", "loser"}, at \in ErrorPoints :
       /\ winner # loser
       /\ RecordDuelResultCall(g, winner, loser, 30, 30, used_item,
                               [get |-> get, at |-> at])
       /\ UNCHANGED <<routerVars, reminderVars, restVars>>

SpecRecord == InitDuel /\ [][NextRecord]_vars

\* The reminder command on one message, with every answer of the AI.
InitCommand ==
    /\ commands = <<>>
    /\ routed = NoMsg
    /\ ReminderIdle
    /\ DuelIdle
    /\ RestIdle

NextCommand ==
    \/ \E raw_text_empty, has_chat \in BOOLEAN :
          /\ HandleReminder(raw_text_empty, has_chat)
          /\ UNCHANGED <<routerVars, reminderVars, duelVars, pcall, managerVars, perplexityVars, areq, failed, lockVars>>
    \/ \E a \in Answers :
          /\ GetAnswer(a)
          /\ UNCHANGED <<routerVars, reminderVars, duelVars, pcall, managerVars, perplexityVars, areq, failed, lockVars>>
    \/ GetAnswerRaises
          /\ UNCHANGED <<routerVars, reminderVars, duelVars, pcall, managerVars, perplexityVars, areq, failed, lockVars>>

SpecCommand == InitCommand /\ [][NextCommand]_vars

\* The three threads on the two locks.
NextLocks ==
    \/ \E t \in LockThreads : \E op \in Operations[t] :
          /\ CallOperation(t, op)
          /\ UNCHANGED <<routerVars, reminderVars, duelVars, pcall, managerVars, perplexityVars, areq, failed, hr>>
    \/ \E t \in LockThreads :
          /\ Acquire(t)
          /\ UNCHANGED <<routerVars, reminderVars, duelVars, pcall, managerVars, perplexityVars, areq, failed, hr>>
    \/ \E t \in LockThreads :
          /\ Release(t)
          /\ UNCHANGED <<routerVars, reminderVars, duelVars, pcall, managerVars, perplexityVars, areq, failed, hr>>
    \/ \E t \in LockThreads :
          /\ Raise(t)
          /\ UNCHANGED <<routerVars, reminderVars, duelVars, pcall, managerVars, perplexityVars, areq, failed, hr>>
    \/ \E t \in LockThreads :
          /\ Return(t)
          /\ UNCHANGED <<routerVars, reminderVars, duelVars, pcall, managerVars, perplexityVars, areq, failed, hr>>

\* A thread that can take a step of its operation takes it in the end.
FairLocks ==
    \A t \in LockThreads :
        /\ WF_lockVars(Acquire(t))
        /\ WF_lockVars(Release(t))
        /\ WF_lockVars(Return(t))

SpecLocks == InitCommand /\ [][NextLocks]_vars /\ FairLocks

\* The computations of the program that read no state, on all their inputs.
InitPure ==
    /\ commands = <<>>
    /\ routed = NoMsg
    /\ ReminderIdle
    /\ DuelIdle
    /\ RestIdle

NextPure ==
    \/ \E attacker_rank, target_rank \in RankInputs, total_players \in PlayerCounts :
          /\ ComputeSuccessProb(attacker_rank, target_rank, total_players)
          /\ UNCHANGED <<routerVars, reminderVars, duelVars, managerVars, perplexityVars, areq, failed, hr, lockVars>>

SpecPure == InitPure /\ [][NextPure]_vars

\* The duel manager: callers of start_duel_thread and the duel threads.
NextManager ==
    \/ \E c \in Callers :
          StartDuelThreadLock(c) /\ UNCHANGED <<routerVars, reminderVars, duelVars, pcall, perplexityVars, areq, failed, hr, lockVars>>
    \/ \E c \in Callers :
          StartDuelThread(c) /\ UNCHANGED <<routerVars, reminderVars, duelVars, pcall, perplexityVars, areq, failed, hr, lockVars>>
    \/ \E t \in DuelThreads :
          RunDuelEnds(t) /\ UNCHANGED <<routerVars, reminderVars, duelVars, pcall, perplexityVars, areq, failed, hr, lockVars>>
    \/ \E t \in DuelThreads :
          RunDuelFinally(t) /\ UNCHANGED <<routerVars, reminderVars, duelVars, pcall, perplexityVars, areq, failed, hr, lockVars>>
    \/ \E t \in DuelThreads :
          RunDuelReturns(t) /\ UNCHANGED <<routerVars, reminderVars, duelVars, pcall, perplexityVars, areq, failed, hr, lockVars>>

SpecManager == InitPure /\ [][NextManager]_vars

\* The Perplexity request manager: callers of start_request and the
\* request threads.
NextPerplexity ==
    \/ \E c \in Callers, thread_key \in ThreadKeys :
          /\ StartRequestLock(c, thread_key)
          /\ UNCHANGED <<routerVars, reminderVars, duelVars, pcall, managerVars, areq, failed, hr, lockVars>>
    \/ \E c \in Callers :
          StartRequest(c) /\ UNCHANGED <<routerVars, reminderVars, duelVars, pcall, managerVars, areq, failed, hr, lockVars>>
    \/ \E t \in RequestThreads :
          /\ PerplexityThreadEnds(t)
          /\ UNCHANGED <<routerVars, reminderVars, duelVars, pcall, managerVars, areq, failed, hr, lockVars>>

SpecPerplexity == InitPure /\ [][NextPerplexity]_vars

(***************************************************************************)
(*                     Properties of the command router                    *)
(***************************************************************************)

\* The command registered under name n.
CmdNamed(n) == CHOOSE c \in { commands[i] : i \in 1..Len(commands) } : c.name = n

\* The position of the command named n in the sorted list.
PosOf(n) == CHOOSE i \in 1..Len(commands) : commands[i].name = n

Names(seq) == { seq[i] : i \in 1..Len(seq) }

\* A command the scope and need_at rules let through for ctx, spelled out.
Eligible(c, ctx) ==
    /\ c.scope = "group" => ctx.is_group
    /\ c.scope = "private" => ~ctx.is_group
    /\ ~(c.need_at /\ ctx.is_group /\ ~ctx.is_at_bot)

\* C1: dispatch never invokes the handler of a need_at command for a group
\* message that does not mention the bot, whatever the commands and their
\* priorities.
C1_NeedAtNeverInvoked ==
    routed.kind = "msg" =>
        \A n \in Names(routed.invoked) :
            ~(CmdNamed(n).need_at /\ routed.ctx.is_group /\ ~routed.ctx.is_at_bot)

\* C1 witness: an unmentioning group message met a need_at command whose
\* pattern matches and whose handler would have claimed it; a command behind
\* it was invoked instead.
C1_Witness ==
    /\ routed.kind = "msg"
    /\ routed.ctx.is_group /\ ~routed.ctx.is_at_bot
    /\ \E i \in 1..Len(commands) :
          /\ commands[i].need_at
          /\ commands[i].scope # "private"
          /\ routed.beh[commands[i].name] = "true"
          /\ \E j \in (i+1)..Len(commands) : commands[j].name \in Names(routed.invoked)

\* C2: when the first matching command's handler raises, dispatch goes on:
\* every later eligible command is tried until one claims the message, and a
\* later matching handler that returns truthy makes dispatch return True.
C2_RaiseContinues ==
    (routed.kind = "msg" /\ routed.invoked # <<>>
        /\ routed.beh[routed.invoked[1]] = "raise") =>
        LET first == PosOf(routed.invoked[1])
            later == { j \in (first+1)..Len(commands) :
                          Eligible(commands[j], routed.ctx) }
            claims(j) == routed.beh[commands[j].name] = "true"
        IN  /\ (\E j \in later : claims(j)) => routed.handled
            /\ \A j \in later :
                  (\A k \in later : k < j => ~claims(k))
                      => commands[j].name \in Names(routed.evaluated)

\* C2 witness: the first handler raised and a later handler claimed the message.
C2_Witness ==
    /\ routed.kind = "msg"
    /\ Len(routed.invoked) >= 2
    /\ routed.beh[routed.invoked[1]] = "raise"
    /\ routed.beh[routed.invoked[Len(routed.invoked)]] = "true"
    /\ routed.handled

\* C3: commands are tried in ascending priority order, and the first truthy
\* handler ends the routing: dispatch returns True and no pattern or handler
\* of a later command is evaluated.
C3_PriorityOrderAndStop ==
    routed.kind = "msg" =>
        LET ev == routed.evaluated
            inv == routed.invoked
        IN  /\ \A a, b \in 1..Len(ev) :
                  a < b => /\ CmdNamed(ev[a]).priority <= CmdNamed(ev[b]).priority
                           /\ PosOf(ev[a]) < PosOf(ev[b])
            /\ \A a \in 1..Len(inv) :
                  routed.beh[inv[a]] = "true" =>
                      /\ routed.handled
                      /\ a = Len(inv)
                      /\ ev[Len(ev)] = inv[a]

\* C3 witness: the message was claimed by a command of priority 1 while an
\* eligible matching command of priority 2, registered before it, was never tried.
C3_Witness ==
    /\ routed.kind = "msg"
    /\ routed.handled
    /\ \E i, j \in 1..Len(commands) :
          /\ commands[i].priority < commands[j].priority
          /\ commands[j].name < commands[i].name
          /\ commands[i].name = routed.invoked[Len(routed.invoked)]
          /\ Eligible(commands[j], routed.ctx)
          /\ routed.beh[commands[j].name] = "true"
          /\ commands[j].name \notin Names(routed.evaluated)

\* C4: dispatch returns False exactly when no eligible command matches and
\* has its handler return truthy; on that verdict processMsg consults the AI
\* router for private messages and for group messages that mention the bot,
\* and a handled message reaches neither the AI router nor handle_chitchat.
C4_UnhandledFallsBack ==
    routed.kind = "msg" =>
        /\ ~routed.handled <=>
              ~\E i \in 1..Len(commands) :
                  /\ Eligible(commands[i], routed.ctx)
                  /\ routed.beh[commands[i].name] = "true"
        /\ (~routed.handled /\ (~routed.msg.from_group \/ routed.msg.is_at))
              => routed.aiTried
        /\ routed.handled => (~routed.aiTried /\ ~routed.chitchat)
        /\ routed.chitchat => ~routed.handled /\ ~routed.aiHandled

\* C4 witness: a mentioning group message matched a command whose handler
\* returned falsy, was left unhandled, then by the AI router too, and got
\* handle_chitchat.
C4_Witness ==
    /\ routed.kind = "msg"
    /\ routed.msg.from_group /\ routed.msg.is_at
    /\ routed.invoked # <<>>
    /\ \A n \in Names(routed.invoked) : routed.beh[n] = "false"
    /\ ~routed.handled
    /\ routed.aiTried /\ ~routed.aiHandled
    /\ routed.chitchat


(***************************************************************************)
(*                  Properties of the reminder engine                      *)
(***************************************************************************)

Range(seq) == { seq[i] : i \in DOMAIN seq }

\* An invocation of check_and_trigger_reminders is inside the lock, past its sends.
Locked(t) == tpc[t] = "locked"

\* C5: a once reminder that add_reminder accepted is listed for its owner,
\* and a check_and_trigger_reminders that runs at or after its trigger time
\* delivers it, exactly once, and removes it from the table.
C5_OnceFiresWhenDue ==
    /\ \A id \in DOMAIN reminders : id \in Range(ListReminders(reminders[id].wxid))
    /\ \A t \in Tickers, id \in DOMAIN reminders :
          ( /\ Locked(t)
            /\ reminders[id].type = "once"
            /\ ParseYmdHM(reminders[id].time_str).at <= tnow[t] )
          => (id \in tfired[t].del /\ Len(sent[id]) = 1)

\* C6: a daily reminder is sent at most once on a calendar day; once the
\* firing tick has committed, last_triggered_at is that tick's `now`; and a
\* tick of a later day, at or after the time of day, sends it again.
C6_DailyOncePerDay ==
    \A id \in DOMAIN reminders :
        reminders[id].type = "daily" =>
          /\ \A i, j \in DOMAIN sent[id] :
                i < j => DayOf(sent[id][i]) # DayOf(sent[id][j])
          /\ ( /\ sent[id] # <<>>
               /\ \A t \in Tickers : ~(Locked(t) /\ id \in tfired[t].upd) )
             => reminders[id].last_triggered_at = sent[id][Len(sent[id])]
          /\ \A t \in Tickers :
                ( /\ Locked(t)
                  /\ reminders[id].last_triggered_at # Null
                  /\ DayOf(reminders[id].last_triggered_at) < DayOf(tnow[t])
                  /\ TodayTrigger(reminders[id].time_str, tnow[t]) <= tnow[t] )
                => (id \in tfired[t].upd /\ sent[id][Len(sent[id])] = tnow[t])

\* The reminder fired on two days, and a later tick of the second day is
\* inside the lock without having sent it.
C6_Witness ==
    \E id \in DOMAIN reminders, t \in Tickers :
        /\ reminders[id].type = "daily"
        /\ Len(sent[id]) = 2
        /\ Locked(t)
        /\ id \notin tfired[t].upd
        /\ DayOf(tnow[t]) = DayOf(sent[id][2])
        /\ tnow[t] > sent[id][2]

\* C7: with overlapping invocations of the tick, at most one of them is in
\* the select-deliver-delete/update-commit sequence, a once reminder is sent
\* at most once, and no reminder is sent twice for the same day.
C7_OverlapNoDoubleDelivery ==
    /\ \A t, u \in Tickers : (Locked(t) /\ Locked(u)) => t = u
    /\ \A t \in Tickers : Locked(t) => db_lock = t
    /\ \A id \in DOMAIN reminders :
          /\ reminders[id].type = "once" => Len(sent[id]) <= 1
          /\ \A i, j \in DOMAIN sent[id] :
                i < j => DayOf(sent[id][i]) # DayOf(sent[id][j])

\* One invocation has sent a reminder and holds the lock while the other,
\* started at the same time, waits for it.
C7_Witness ==
    \E t, u \in Tickers :
        /\ t # u
        /\ Locked(t)
        /\ tfired[t].del \cup tfired[t].upd # {}
        /\ tpc[u] = "wait"
        /\ tnow[u] = tnow[t]

\* C8: a delete_reminder call that names a reminder of another user returns
\* failure and leaves the table as it was; and a delete_reminder call that
\* succeeds removes exactly the named row, which the caller owned.
C8_DeleteOnlyByOwner ==
    [][ (ret' # ret /\ ret'.op = "delete") =>
          /\ ( ret'.id \in DOMAIN reminders /\ reminders[ret'.id].wxid # ret'.wxid )
             => ( ~ret'.ok /\ reminders' = reminders )
          /\ ret'.ok =>
                /\ ret'.id \in DOMAIN reminders
                /\ reminders[ret'.id].wxid = ret'.wxid
                /\ reminders' = Without(reminders, {ret'.id}) ]_vars

\* delete_reminder has just refused the id of a row of another user.
C8_Witness ==
    /\ ret.op = "delete"
    /\ ~ret.ok
    /\ ret.id \in DOMAIN reminders
    /\ reminders[ret.id].wxid # ret.wxid

(***************************************************************************)
(*                     Properties of the duel store                        *)
(***************************************************************************)

\* C9: a record_duel_result call for winner A and loser B, two distinct
\* players with rows in the group, with the same points D for both, adds D
\* to A's score, sets B's score to the larger of 1 and B's score minus D, so
\* not below 1, and adds 1 to A's wins, B's losses and both total_matches.
C9_RecordDuelResult ==
    [][ ( /\ drec' # drec
          /\ drec'.op = "record"
          /\ drec'.wp = drec'.lp
          /\ drec'.p # drec'.q
          /\ HasRow(players, drec'.g, drec'.p)
          /\ HasRow(players, drec'.g, drec'.q) )
        => LET A == Key(drec'.g, drec'.p)
               B == Key(drec'.g, drec'.q)
               D == drec'.wp
           IN  /\ players'[A].score = players[A].score + D
               /\ players'[B].score =
                     (IF players[B].score - D > 1 THEN players[B].score - D ELSE 1)
               /\ players'[B].score >= 1
               /\ players'[A].wins = players[A].wins + 1
               /\ players'[B].losses = players[B].losses + 1
               /\ players'[A].total_matches = players[A].total_matches + 1
               /\ players'[B].total_matches = players[B].total_matches + 1
               /\ players'[A].losses = players[A].losses
               /\ players'[B].wins = players[B].wins ]_vars

\* A duel with the same points for both has been recorded and has left the
\* loser, who had fewer points than the duel took, with a score of 1.
C9_Witness ==
    /\ drec.op = "record"
    /\ drec.wp = drec.lp
    /\ drec.lp >= 10
    /\ drec.p # drec.q
    /\ HasRow(players, drec.g, drec.p)
    /\ HasRow(players, drec.g, drec.q)
    /\ players[Key(drec.g, drec.q)].score = 1
    /\ players[Key(drec.g, drec.q)].losses > 10

\* C10: every row of duel_players has a score of at least 1.
C10_ScoreAtLeastOne ==
    \A k \in DOMAIN players : players[k].score >= 1

\* A sneak attack has taken points from its target and left it a score of 1.
C10_Witness ==
    /\ drec.op = "sneak"
    /\ drec.wp > 0
    /\ HasRow(players, drec.g, drec.q)
    /\ players[Key(drec.g, drec.q)].score = 1
    /\ ops = MaxOps

\* The number of invisibility cloaks of player n of group g in table T.
Cloaks(T, g, n) == T[Key(g, n)].invisibility_cloak

\* C11: in a duel that is not a Boss fight, when exactly one side holds an
\* invisibility cloak the duel is decided for that side before any spell is
\* drawn; when both hold one the duel goes to the combat.  The ambush, for
\* rows that are still as start_duel read them, gives its winner 30 points,
\* takes 30 from the loser, not below 1, and takes exactly one cloak from the
\* winner; the combat of two cloak holders leaves both cloak counts alone.
C11_CloakAmbush ==
    [][ /\ ( /\ duel = NoDuel
             /\ duel' # NoDuel
             /\ duel'.p2 # Boss )
          => LET c1 == Cloaks(players', duel'.g, duel'.p1) > 0
                 c2 == Cloaks(players', duel'.g, duel'.p2) > 0
             IN  /\ (c1 /\ ~c2) => duel'.path = "cloak1"
                 /\ (~c1 /\ c2) => duel'.path = "cloak2"
                 /\ (c1 /\ c2) => duel'.path = "combat"
                 /\ duel'.path \in {"cloak1", "cloak2"} => (c1 # c2)
        /\ \A w, l \in PlayerNames :
             ( /\ \/ duel.path = "cloak1" /\ w = duel.p1 /\ l = duel.p2
                  \/ duel.path = "cloak2" /\ w = duel.p2 /\ l = duel.p1
               /\ duel' = NoDuel
               /\ HasRow(players, duel.g, w)
               /\ HasRow(players, duel.g, l)
               /\ Cloaks(players, duel.g, w) > 0
               /\ Cloaks(players, duel.g, l) = 0 )
             => /\ drec'.op = "record"
                /\ drec'.p = w
                /\ drec'.q = l
                /\ players'[Key(duel.g, w)].score = players[Key(duel.g, w)].score + 30
                /\ players'[Key(duel.g, l)].score =
                      (IF players[Key(duel.g, l)].score > 31
                       THEN players[Key(duel.g, l)].score - 30 ELSE 1)
                /\ Cloaks(players', duel.g, w) = Cloaks(players, duel.g, w) - 1
                /\ Cloaks(players', duel.g, l) = 0
        /\ ( /\ duel.path = "combat"
             /\ duel' = NoDuel
             /\ HasRow(players, duel.g, duel.p1)
             /\ HasRow(players, duel.g, duel.p2)
             /\ Cloaks(players, duel.g, duel.p1) > 0
             /\ Cloaks(players, duel.g, duel.p2) > 0 )
          => /\ Cloaks(players', duel.g, duel.p1) = Cloaks(players, duel.g, duel.p1)
             /\ Cloaks(players', duel.g, duel.p2) = Cloaks(players, duel.g, duel.p2)
      ]_vars

\* An ambush has been recorded: the only holder of a cloak has won 30 points
\* with its last cloak and the loser, who had a score of 1, has kept it.
C11_Witness ==
    /\ drec.op = "record"
    /\ drec.wp = 30
    /\ drec.lp = 30
    /\ drec.p # drec.q
    /\ duel = NoDuel
    /\ HasRow(players, drec.g, drec.p)
    /\ HasRow(players, drec.g, drec.q)
    /\ Cloaks(players, drec.g, drec.p) = 0
    /\ players[Key(drec.g, drec.q)].score = 1

\* C12: a sneak attack whose success roll succeeds on a target at a score
\* of 1 moves no points, both scores stay as they were, and it goes on to
\* the item theft: it ends as a stolen item or as a failure, never as a theft
\* of points.
C12_SneakAtFloor ==
    [][ ( /\ drec'.n # drec.n
          /\ drec'.op \in {"sneak", "sneak_item", "sneak_failed"}
          /\ drec'.roll
          /\ players[Key(drec'.g, drec'.q)].score = 1 )
        => /\ drec'.op \in {"sneak_item", "sneak_failed"}
           /\ drec'.wp = 0
           /\ DOMAIN players' = DOMAIN players
           /\ \A k \in DOMAIN players : players'[k].score = players[k].score
           /\ drec'.op = "sneak_failed" => players' = players ]_vars

\* A sneak attack with a successful roll on another player at a score of 1
\* has stolen an item instead of points.
C12_Witness ==
    /\ drec.op = "sneak_item"
    /\ drec.roll
    /\ drec.p # drec.q
    /\ players[Key(drec.g, drec.q)].score = 1
    /\ \E item \in Items : players[Key(drec.g, drec.p)][item] = 1

\* C13: attempt_sneak_attack never adds a row to duel_players; when the
\* attacker or the target has no row in the group it returns a refusal and
\* leaves the table as it was.
C13_SneakCreatesNoRow ==
    [][ ( /\ drec'.n # drec.n
          /\ drec'.op \in {"sneak", "sneak_item", "sneak_failed", "sneak_refused"} )
        => /\ DOMAIN players' = DOMAIN players
           /\ ( ~HasRow(players, drec'.g, drec'.p) \/ ~HasRow(players, drec'.g, drec'.q) )
                => /\ drec'.op = "sneak_refused"
                   /\ players' = players ]_vars

\* A sneak attack by a player with a row on a player without one has been
\* refused, and the target still has no row.
C13_Witness ==
    /\ drec.op = "sneak_refused"
    /\ HasRow(players, drec.g, drec.p)
    /\ ~HasRow(players, drec.g, drec.q)

(***************************************************************************)
(*                  Properties of the computations                         *)
(***************************************************************************)

\* C14: for every attacker rank, target rank and number of players, the
\* success probability of a sneak attack is between 0 and 1 and at most 0.7;
\* it is the base 0.3 when there are no players, when a rank is unavailable
\* and when the attacker's rank is not the larger number.
C14_SuccessProbRange ==
    pcall.fn = "success_prob"
    => LET attacker_rank == pcall.args[1]
           target_rank == pcall.args[2]
           total_players == pcall.args[3]
           p == pcall.out
       IN  /\ p.den > 0
           /\ 0 <= p.num
           /\ p.num <= p.den
           /\ 10 * p.num <= 7 * p.den
           /\ ( \/ total_players = 0
                \/ attacker_rank = Null
                \/ target_rank = Null
                \/ attacker_rank <= target_rank )
              => 10 * p.num = 3 * p.den
           /\ ( /\ total_players > 0
                /\ attacker_rank # Null
                /\ target_rank # Null
                /\ attacker_rank > target_rank )
              => 10 * p.num > 3 * p.den

\* The probability has been computed for an attacker at least as many ranks
\* behind the target as there are players: it is 0.7.
C14_Witness ==
    /\ pcall.fn = "success_prob"
    /\ pcall.args[1] # Null
    /\ pcall.args[2] # Null
    /\ pcall.args[3] > 0
    /\ pcall.args[1] - pcall.args[2] >= pcall.args[3]
    /\ 10 * pcall.out.num = 7 * pcall.out.den

(***************************************************************************)
(*                    Properties of the duel manager                       *)
(***************************************************************************)

\* The duel threads that are alive, and the ones that have not yet cleared
\* _duel_thread in run_duel's finally block.
AliveThreads == { t \in DuelThreads : threads[t] \in Alive }
DuellingThreads == { t \in DuelThreads : threads[t] \in {"running", "finishing"} }

\* C15, as stated: at most one duel thread is alive at any time.
C15_AtMostOneAlive ==
    Cardinality(AliveThreads) <= 1

\* C15, amended: at most one duel thread at a time is between its start and
\* the clearing of _duel_thread in run_duel's finally block, and
\* _duel_thread is that thread; start_duel_thread returns False and starts
\* nothing whenever there is such a thread, and otherwise starts one thread
\* and returns True.
C15_AtMostOneDuel ==
    /\ [](Cardinality(DuellingThreads) <= 1)
    /\ [](\A t \in DuellingThreads : duel_thread = t)
    /\ [][ \A c \in Callers :
             (spc[c] = "locked" /\ spc'[c] = "idle")
             => IF DuellingThreads # {}
                THEN /\ ~sret'.ok
                     /\ sret'.caller = c
                     /\ threads' = threads
                     /\ duel_thread' = duel_thread
                ELSE /\ sret'.ok
                     /\ sret'.caller = c
                     /\ \E t \in DuelThreads :
                          /\ threads[t] = "unstarted"
                          /\ threads' = [threads EXCEPT ![t] = "running"]
                          /\ duel_thread' = t ]_vars

\* start_duel_thread has just refused a caller while a duel thread started
\* after the first one had ended is in its duel.
C15_Witness ==
    /\ sret.caller # "none"
    /\ ~sret.ok
    /\ \E t \in DuellingThreads : t > 1
    /\ \E t \in DuelThreads : threads[t] = "dead"

(***************************************************************************)
(*               Properties of the Perplexity request manager              *)
(***************************************************************************)

\* The request threads of a conversation that are alive.
AliveRequests(thread_key) ==
    { t \in RequestThreads :
        pplx_run[t].state = "running" /\ pplx_run[t].key = thread_key }

Defective(data, now) ==
    \/ ~data.keys_ok
    \/ data.type \notin {"once", "daily", "weekly"}
    \/ data.type = "once" /\ ~ParseYmdHM(data.time).ok
    \/ data.type = "once" /\ ParseYmdHM(data.time).at <= now
    \/ data.type \in {"daily", "weekly"} /\ ~ParseHM(data.time).ok
    \/ data.type = "weekly" /\ data.weekday \notin 0..6

\* C17: add_reminder returns a failure with a message and leaves the table
\* as it was when its data has a defect; otherwise it returns success and
\* the id of exactly one new row, which holds the caller, the data and the
\* chat, with last_triggered_at NULL.
C17_AddReminderValidates ==
    [][ areq' # areq \/ (ret' # ret /\ ret'.op = "add")
        => /\ ret'.op = "add"
           /\ ret'.wxid = areq'.wxid
           /\ IF Defective(areq'.data, clock)
              THEN /\ ~ret'.ok
                   /\ areq'.msg # "ok"
                   /\ reminders' = reminders
              ELSE /\ ret'.ok
                   /\ ret'.id \notin DOMAIN reminders
                   /\ DOMAIN reminders' = DOMAIN reminders \cup {ret'.id}
                   /\ \A id \in DOMAIN reminders : reminders'[id] = reminders[id]
                   /\ reminders'[ret'.id].last_triggered_at = Null
                   /\ reminders'[ret'.id].wxid = areq'.wxid
                   /\ reminders'[ret'.id].type = areq'.data.type
                   /\ reminders'[ret'.id].time_str = areq'.data.time
                   /\ reminders'[ret'.id].content = areq'.data.content
                   /\ reminders'[ret'.id].roomid = areq'.roomid ]_vars

\* add_reminder has just refused a once reminder for the very minute of the
\* call: its time parses and is not in the future.
C17_Witness ==
    /\ ret.op = "add"
    /\ ~ret.ok
    /\ areq.msg = "past"
    /\ areq.data.type = "once"
    /\ ParseYmdHM(areq.data.time).ok
    /\ ParseYmdHM(areq.data.time).at = clock
    /\ reminders = <<>>

\* C18: add_reminder refuses every reminder whose content has fewer than 2
\* characters after trimming and adds no row for it, so every row of the
\* reminders table has a content of at least 2 characters after trimming.
C18_ContentAtLeastTwo ==
    /\ []( \A id \in DOMAIN reminders : Len(Strip(reminders[id].content)) >= 2 )
    /\ [][ ( /\ areq' # areq
             /\ Len(Strip(areq'.data.content)) < 2 )
           => ( ~ret'.ok /\ reminders' = reminders ) ]_vars

\* Whether text p is a proper prefix of text s.
IsProperPrefix(p, s) == Len(p) < Len(s) /\ SubSeq(s, 1, Len(p)) = p

\* The reminders of wxid whose id starts with reminder_id.
PrefixMatches(wxid, reminder_id) ==
    { id \in DOMAIN reminders :
        /\ reminders[id].wxid = wxid
        /\ IsProperPrefix(reminder_id, IdText(id)) }

\* C19: delete_reminder called with a short prefix of a reminder id deletes
\* the caller's reminder when the prefix matches exactly one of the
\* caller's reminders, and deletes nothing when it matches several.
C19_DeleteByPrefix ==
    [][ ( /\ ret' # ret
          /\ ret'.op = "delete"
          /\ PrefixMatches(ret'.wxid, ret'.ref) # {} )
        => IF Cardinality(PrefixMatches(ret'.wxid, ret'.ref)) = 1
           THEN /\ ret'.ok
                /\ reminders' = Without(reminders, PrefixMatches(ret'.wxid, ret'.ref))
           ELSE /\ ~ret'.ok
                /\ reminders' = reminders ]_vars

(***************************************************************************)
(*                     Properties of score transfers                       *)
(***************************************************************************)

\* The sum of the scores of players p and q of group g in table T.
ScoreSum(T, g, p, q) == T[Key(g, p)].score + T[Key(g, q)].score

\* C20: a duel that is not a Boss fight, and a sneak attack that moves
\* points, between two players of a group leave the sum of the two scores
\* as it was.
C20_ZeroSum ==
    [][ ( /\ \/ duel.path \in {"cloak1", "cloak2", "combat"} /\ duel' = NoDuel
             \/ drec'.n # drec.n /\ drec'.op = "sneak"
          /\ drec'.p # drec'.q
          /\ HasRow(players, drec'.g, drec'.p)
          /\ HasRow(players, drec'.g, drec'.q) )
        => ScoreSum(players', drec'.g, drec'.p, drec'.q)
              = ScoreSum(players, drec'.g, drec'.p, drec'.q) ]_vars

(***************************************************************************)
(*                     Properties of the Boss fight                        *)
(***************************************************************************)

\* A step of a Boss fight of challenger n in group g: start_duel reads the
\* rows, or the fight is settled.
BossFightStep(g, n) ==
    \/ duel = NoDuel /\ duel' # NoDuel /\ duel'.p2 = Boss /\ duel'.g = g /\ duel'.p1 = n
    \/ duel.path = "boss" /\ duel' = NoDuel /\ duel.g = g /\ duel.p1 = n

\* C21: a Boss fight neither creates nor modifies a row named after the
\* Boss: a table without such a row has none after the fight, and no row but
\* the challenger's is added or changed.
C21_BossIsNoRow ==
    [][ \A g \in Groups, n \in PlayerNames :
          BossFightStep(g, n)
          => /\ HasRow(players', g, Boss) => HasRow(players, g, Boss)
             /\ \A k \in DOMAIN players' :
                   k # Key(g, n) => k \in DOMAIN players /\ players'[k] = players[k]
      ]_vars

(***************************************************************************)
(*                   Properties of the periodic check                      *)
(***************************************************************************)

\* The rows an invocation that reads `now` finds due and can process.
Due(now) ==
    DueOnce(now) \cup (DueDaily(now) \ RaisingDaily(now))
                 \cup (DueWeekly(now) \ RaisingWeekly(now))

\* Whether the processing of a row raises in an invocation that reads `now`.
TickRaises(now) == RaisingDaily(now) # {} \/ RaisingWeekly(now) # {}

C23_ChangePlayerName ==
    [][ ( /\ drec'.n # drec.n
          /\ drec'.op \in {"rename", "rename_refused"} )
        => LET old == Key(drec'.g, drec'.p)
               new == Key(drec'.g, drec'.q)
           IN  IF old \notin DOMAIN players \/ new \in DOMAIN players
               THEN /\ drec'.op = "rename_refused"
                    /\ players' = players
               ELSE /\ drec'.op = "rename"
                    /\ DOMAIN players' = (DOMAIN players \ {old}) \cup {new}
                    /\ players'[new] = players[old]
                    /\ \A k \in DOMAIN players \ {old} : players'[k] = players[k]
      ]_vars

\* A player who has won a Boss fight has taken a name that was free: the row
\* of the new name holds the three items and the old name has no row.
C23_Witness ==
    /\ drec.op = "rename"
    /\ ~HasRow(players, drec.g, drec.p)
    /\ HasRow(players, drec.g, drec.q)
    /\ players[Key(drec.g, drec.q)].elder_wand = 1
    /\ players[Key(drec.g, drec.q)].wins = 1
    /\ \E n \in PlayerNames \ {drec.p, drec.q} : HasRow(players, drec.g, n)

\* What C24 calls not due at `now`: a once row whose time is after now, a
\* daily row whose time of day is after now's, a weekly row of another
\* weekday or whose time of day is after now's.
NotDue(row, now) ==
    \/ row.type = "once" /\ ParseYmdHM(row.time_str).at > now
    \/ row.type = "daily" /\ TodayTrigger(row.time_str, now) > now
    \/ row.type = "weekly" /\ row.weekday # WeekdayOf(now)
    \/ row.type = "weekly" /\ TodayTrigger(row.time_str, now) > now

\* The steps of invocation t: it sends what it selected, it commits.
Selects(t) == tpc[t] = "wait" /\ tpc'[t] = "locked"
Commits(t) == tpc[t] = "locked" /\ tpc'[t] = "idle"

WeeklyRows == { id \in DOMAIN reminders : reminders[id].type = "weekly" }

\* C25: a weekly reminder is sent only by an invocation whose weekday
\* (Monday = 0) is the reminder's and whose time of day is at or after the
\* reminder's, at most once on a day; the commit of the invocation that
\* sent it keeps its row; and an invocation on a later day of that weekday,
\* at or after its time of day, sends it again.
C25_WeeklyFires ==
    /\ []( \A id \in WeeklyRows : \A i \in 1..Len(sent[id]) :
              /\ WeekdayOf(sent[id][i]) = reminders[id].weekday
              /\ TodayTrigger(reminders[id].time_str, sent[id][i]) <= sent[id][i]
              /\ \A j \in 1..Len(sent[id]) :
                    i < j => DayOf(sent[id][i]) < DayOf(sent[id][j]) )
    /\ [][ \A t \in Tickers : \A id \in WeeklyRows :
             /\ ( Commits(t) /\ id \in tfired[t].upd )
                => /\ id \in DOMAIN reminders'
                   /\ reminders'[id] =
                         [reminders[id] EXCEPT !.last_triggered_at = tnow[t]]
             /\ ( /\ Selects(t)
                  /\ reminders[id].last_triggered_at # Null
                  /\ DayOf(reminders[id].last_triggered_at) < DayOf(tnow[t])
                  /\ WeekdayOf(tnow[t]) = reminders[id].weekday
                  /\ TodayTrigger(reminders[id].time_str, tnow[t]) <= tnow[t] )
                => id \in JustSent ]_vars

\* The weekly reminder for Friday 09:00 has been sent on two Fridays, a week
\* apart.
C25_Witness ==
    \E id \in WeeklyRows :
        /\ Len(sent[id]) = 2
        /\ DayOf(sent[id][2]) = DayOf(sent[id][1]) + 7
        /\ reminders[id].last_triggered_at = sent[id][2]

\* The number of sends of row id on the day of `now`.
SendsOnDay(id, now) ==
    Cardinality({ i \in 1..Len(sent[id]) : DayOf(sent[id][i]) = DayOf(now) })

\* C26: an invocation in which a send raises still sends every due
\* reminder and keeps each of them for step 4, and step 4 deletes the once
\* rows and stamps the daily and weekly ones, the failed ones included; a
\* once reminder whose send raised is gone after its invocation, and a daily
\* or weekly one is sent no second time on that day.
C26_FailedSendNotRetried ==
    /\ [][ \A t \in Tickers :
             /\ ( Selects(t) /\ failed' # failed )
                => /\ Due(tnow[t]) \subseteq JustSent
                   /\ tfired'[t].del = DueOnce(tnow[t])
                   /\ tfired'[t].upd = Due(tnow[t]) \ DueOnce(tnow[t])
             /\ Commits(t)
                => \A id \in DOMAIN reminders :
                      <<id, tnow[t]>> \in failed
                      => IF reminders[id].type = "once"
                         THEN id \notin DOMAIN reminders'
                         ELSE reminders'[id].last_triggered_at = tnow[t] ]_vars
    /\ []( \A f \in failed :
              f[1] \in DOMAIN reminders
              => IF reminders[f[1]].type = "once"
                 THEN \E t \in Tickers : tpc[t] = "locked" /\ tnow[t] = f[2]
                 ELSE SendsOnDay(f[1], f[2]) = 1 )

\* The send of the once reminder raised in an invocation that delivered the
\* daily reminder; the once row is gone, and a later invocation of that day
\* has run without sending the daily reminder again.
C26_Witness ==
    \E f \in failed :
        /\ f[1] = StoredOnce
        /\ StoredOnce \notin DOMAIN reminders
        /\ StoredDaily \in DOMAIN reminders
        /\ <<StoredDaily, f[2]>> \notin failed
        /\ sent[StoredDaily] = <<f[2]>>
        /\ reminders[StoredDaily].last_triggered_at = f[2]
        /\ clock > f[2]
        /\ DayOf(clock) = DayOf(f[2])
        /\ tpc["t1"] = "locked"

CombatSettles ==
    /\ duel.path = "combat"
    /\ duel' = NoDuel
    /\ drec'.p # drec'.q
    /\ HasRow(players, drec'.g, drec'.p)
    /\ HasRow(players, drec'.g, drec'.q)

\* C28: in a combat of total_magic_power P, the loser's score stays when the
\* loser holds a magic stone and otherwise drops by P, not below 1; the
\* winner gains 5 * P when the winner holds an elder wand and otherwise P;
\* each of the two depends on its own item alone.
C28_ItemModifiers ==
    [][ CombatSettles
        => LET W == Key(drec'.g, drec'.p)
               L == Key(drec'.g, drec'.q)
               P == drec'.power
           IN  /\ P > 0
               /\ players'[L].score =
                     (IF players[L].magic_stone > 0 THEN players[L].score
                      ELSE IF players[L].score - P > 1 THEN players[L].score - P
                      ELSE 1)
               /\ players'[W].score =
                     (IF players[W].elder_wand > 0 THEN players[W].score + 5 * P
                      ELSE players[W].score + P) ]_vars

\* A combat in which both effects applied: the winner has gained five times
\* the total_magic_power and the loser has lost nothing.
C28_Witness ==
    /\ drec.op = "record"
    /\ drec.power > 0
    /\ drec.wp = 5 * drec.power
    /\ drec.lp = 0
    /\ drec.p # drec.q

\* C29: in a combat, the loser's magic_stone count drops by exactly 1 when
\* the loser holds a magic stone (its protection is applied), the winner's
\* elder_wand count drops by exactly 1 when the winner holds an elder wand
\* (its multiplier is applied), both in the duel in which both are applied,
\* and no other item count of the two rows changes.
C29_AppliedItemsConsumed ==
    [][ CombatSettles
        => LET W == Key(drec'.g, drec'.p)
               L == Key(drec'.g, drec'.q)
               stone == players[L].magic_stone > 0
               wand == players[W].elder_wand > 0
           IN  /\ players'[L].magic_stone =
                     players[L].magic_stone - (IF stone THEN 1 ELSE 0)
               /\ players'[W].elder_wand =
                     players[W].elder_wand - (IF wand THEN 1 ELSE 0)
               /\ players'[L].elder_wand = players[L].elder_wand
               /\ players'[W].magic_stone = players[W].magic_stone
               /\ players'[L].invisibility_cloak = players[L].invisibility_cloak
               /\ players'[W].invisibility_cloak = players[W].invisibility_cloak
      ]_vars

\* The sum of the numbers of a sequence.
RECURSIVE SumOf(_)
SumOf(seq) == IF seq = <<>> THEN 0 ELSE Head(seq) + SumOf(Tail(seq))

\* Who wins and who loses the exchange that `first` began: the defender
\* loses when the defence fails (one spell was cast), the first striker when
\* it holds (two were).
ExchangeDecided ==
    /\ drec'.first \in {drec'.p, drec'.q}
    /\ Len(drec'.cast) = 1 => drec'.p = drec'.first
    /\ Len(drec'.cast) = 2 => drec'.q = drec'.first

\* C30 as stated: the total_magic_power of a combat is the sum of the powers
\* of the spells cast, the first striker's when the defence fails and the
\* first striker's plus the counter-attacker's when it holds.
C30_PowerIsSpellSum ==
    [][ CombatSettles
        => /\ ExchangeDecided
           /\ drec'.power = SumOf(drec'.cast) ]_vars

\* C30, amended: the total_magic_power of a combat is the first striker's
\* spell power when the defence fails, and the first striker's spell power
\* plus 20 for the defence spell plus the counter-attacker's spell power
\* when the defence holds; the defender loses when the defence fails, the
\* first striker when it holds.
C30_PowerWithDefense ==
    [][ CombatSettles
        => /\ ExchangeDecided
           /\ Len(drec'.cast) \in {1, 2}
           /\ drec'.power =
                 SumOf(drec'.cast) + (IF Len(drec'.cast) = 2 THEN 20 ELSE 0)
           /\ drec'.wp \in {drec'.power, 5 * drec'.power}
           /\ drec'.lp \in {drec'.power, 0} ]_vars

\* A combat in which the defence held: the first striker cast the weakest
\* spell, the defender the strongest, and the first striker lost 130 points.
C30_Witness ==
    /\ drec.op = "record"
    /\ drec.cast = <<10, 100>>
    /\ drec.q = drec.first
    /\ drec.p # drec.q
    /\ drec.power = 130
    /\ drec.lp = 130

(***************************************************************************)
(* C31  The item-steal sub-path of attempt_sneak_attack either changes     *)
(* nothing or moves exactly one unit of one item type that the target      *)
(* holds from the target to the attacker: for each item type the combined  *)
(* count of attacker and target is conserved, scores and win/loss counters *)
(* are unchanged, and when the target holds no item the state is           *)
(* unchanged.                                                              *)
(***************************************************************************)

\* The step is a sneak attack that went into the item-steal sub-path.
ItemStealStep ==
    /\ ops' = ops + 1
    /\ drec'.n = ops'
    /\ drec'.op \in {"sneak_item", "sneak_failed"}

C31_ItemSteal ==
    [][ItemStealStep =>
        LET a == Key(drec'.g, drec'.p)
            t == Key(drec'.g, drec'.q)
        IN  /\ DOMAIN players' = DOMAIN players
            /\ \A k \in DOMAIN players \ {a, t} : players'[k] = players[k]
            /\ \A k \in {a, t} :
                  /\ players'[k].score = players[k].score
                  /\ players'[k].wins = players[k].wins
                  /\ players'[k].losses = players[k].losses
                  /\ players'[k].total_matches = players[k].total_matches
            /\ \A i \in Items :
                  players'[a][i] + players'[t][i] = players[a][i] + players[t][i]
            /\ \/ players' = players
               \/ \E i \in Items :
                     /\ players[t][i] > 0
                     /\ players'[t][i] = players[t][i] - 1
                     /\ players'[a][i] = players[a][i] + 1
                     /\ \A j \in Items \ {i} :
                           /\ players'[t][j] = players[t][j]
                           /\ players'[a][j] = players[a][j]
            /\ (\A i \in Items : players[t][i] = 0) => players' = players]_vars

\* An attacker has taken an item from another player who held several.
C31_Witness ==
    /\ drec.op = "sneak_item"
    /\ drec.p # drec.q
    /\ \E i \in Items : players[Key(drec.g, drec.p)][i] > 0
    /\ \E i \in Items : players[Key(drec.g, drec.q)][i] > 0

(***************************************************************************)
(* C32  In every reachable state, after any sequence of duels, Boss        *)
(* battles and sneak attacks, each of elder_wand, magic_stone and          *)
(* invisibility_cloak is >= 0 for every duel_players row.                  *)
(***************************************************************************)
C32_ItemsNonNegative ==
    \A k \in DOMAIN players : \A i \in Items : players[k][i] >= 0

\* A duel was won by ambush and the winner has no cloak left.
C32_Witness ==
    /\ drec.op = "record"
    /\ drec.wp = 30
    /\ HasRow(players, drec.g, drec.p)
    /\ players[Key(drec.g, drec.p)].invisibility_cloak = 0

(***************************************************************************)
(* C33  Player identity is scoped per group: every duel, Boss battle,      *)
(* sneak attack, rename and lazy player creation performed for group G     *)
(* leaves all duel_players rows of every other group unchanged, including  *)
(* rows with the same player_name, and rank and leaderboard queries for G  *)
(* depend only on G's rows.                                                *)
(***************************************************************************)

\* The table with the rows of group g only.
GroupRows(T, g) == [k \in GroupKeys(T, g) |-> T[k]]

\* The group of the operation a step belongs to: the group of the duel that
\* starts, or else the group of the call that is recorded.
StepGroup == IF duel' # duel /\ duel' # NoDuel THEN duel'.g ELSE drec'.g

C33_GroupScoped ==
    /\ [][\A g \in Groups \ {StepGroup} :
             GroupRows(players', g) = GroupRows(players, g)]_vars
    /\ [](\A g \in Groups :
            /\ GetRankList(players, g) = GetRankList(GroupRows(players, g), g)
            /\ \A n \in PlayerNames \cup {Boss} :
                  GetPlayerRank(players, g, n) =
                      GetPlayerRank(GroupRows(players, g), g, n))

\* Player "a" has a row in both groups, the two differ, and the latest
\* operation was one of group "g2".
C33_Witness ==
    /\ HasRow(players, "g1", "a")
    /\ HasRow(players, "g2", "a")
    /\ players[Key("g1", "a")] # players[Key("g2", "a")]
    /\ drec.g = "g2"
    /\ GetPlayerRank(players, "g1", "a") # GetPlayerRank(players, "g2", "a")

(***************************************************************************)
(* C34  record_duel_result is all-or-nothing: if a storage error occurs at *)
(* any point of the call, none of the winner update, the loser update and  *)
(* the item decrement is persisted and (0, 0) is returned; otherwise all   *)
(* of them are persisted together.                                         *)
(***************************************************************************)

\* The step is a call of record_duel_result.
RecordStep ==
    /\ ops' = ops + 1
    /\ drec'.n = ops'
    /\ drec'.op = "record"

\* The table with no update persisted: the rows it had, and default rows
\* for the players created meanwhile.
NothingPersisted(T_before, T_after) ==
    [k \in DOMAIN T_after |-> IF k \in DOMAIN T_before THEN T_before[k] ELSE DefaultRow]

C34_AllOrNothing ==
    [][RecordStep =>
        IF drec'.err # NoError
        THEN /\ players' = NothingPersisted(players, players')
             /\ drec'.out = <<0, 0>>
        ELSE players' = RecordDuelResult(players, drec'.g, drec'.p, drec'.q,
                                         drec'.wp, drec'.lp, drec'.item)]_vars

(***************************************************************************)
(* C35  record_duel_result returns the score changes actually applied: the *)
(* first component equals the winner's score after the call minus the      *)
(* score before it, and the second component equals the loser's score      *)
(* before the call minus the score after it, for every loser score and     *)
(* every requested loss.                                                   *)
(***************************************************************************)

\* The step is the record_duel_result that ends a duel.
DuelRecorded ==
    /\ duel # NoDuel
    /\ duel' = NoDuel
    /\ drec'.op = "record"

C35_ReturnsApplied ==
    [][(DuelRecorded /\ drec'.p # drec'.q) =>
        LET w == Key(drec'.g, drec'.p)
            l == Key(drec'.g, drec'.q)
            before == GetPlayerData(GetPlayerData(players, drec'.g, drec'.p),
                                    drec'.g, drec'.q)
        IN  /\ drec'.out[1] = players'[w].score - before[w].score
            /\ drec'.out[2] = before[l].score - players'[l].score]_vars

(***************************************************************************)
(* C36  handle_reminder asks the AI to parse a reminder request at most 3  *)
(* times per message: it stops at the first response that parses as a      *)
(* JSON list or object, and after three unparsable responses it sends a    *)
(* user-visible failure, adds no reminder, and returns handled (True).     *)
(***************************************************************************)

\* The answer is a JSON list or a JSON object.
ParsesAsJson(a) == a.whole \in {"list", "object"}

C36_ThreeAttempts ==
    /\ Len(hr.asked) <= 3
    /\ \A i \in 1..Len(hr.asked) : ParsesAsJson(hr.asked[i]) => i = Len(hr.asked)
    /\ (Len(hr.asked) = 3 /\ \A i \in 1..3 : ~ParsesAsJson(hr.asked[i]))
       => (hr.pc = "done" /\ hr.sent = "failure" /\ hr.added = 0 /\ hr.ret = TRUE)

(***************************************************************************)
(* C37  In every reachable state, every duel_players row satisfies         *)
(* wins + losses = total_matches, after any sequence of duels, Boss        *)
(* battles, sneak attacks and renames.                                     *)
(***************************************************************************)
C37_MatchesCounted ==
    \A k \in DOMAIN players :
        players[k].wins + players[k].losses = players[k].total_matches

\* A duel has been recorded and a player has both won and lost matches.
C37_Witness ==
    /\ drec.op = "record"
    /\ \E k \in DOMAIN players :
          /\ players[k].wins > 0
          /\ players[k].losses > 0
          /\ players[k].total_matches > 1

(***************************************************************************)
(* C38  The item counts on which a duel bases its item effects are the     *)
(* ones in force when its result is persisted: no sneak-attack item theft  *)
(* issued from the message thread can commit between the duel thread's     *)
(* read of the players' items (get_player_data) and its                    *)
(* record_duel_result, so an ambush, elder-wand or magic-stone effect is   *)
(* never applied for an item the player no longer holds at commit time.    *)
(***************************************************************************)

\* The step is a sneak attack that takes an item from a player of the duel
\* that is under way.
TheftDuringDuel ==
    /\ duel # NoDuel
    /\ ItemStealStep
    /\ drec'.op = "sneak_item"
    /\ drec'.g = duel.g
    /\ drec'.q \in {duel.p1, duel.p2}

C38_ItemsHeldAtCommit ==
    [][/\ ~TheftDuringDuel
       /\ (DuelRecorded /\ duel.path \in {"cloak1", "cloak2"})
             => /\ HasRow(players, drec'.g, drec'.p)
                /\ players[Key(drec'.g, drec'.p)].invisibility_cloak > 0]_vars

(***************************************************************************)
(* C39  The storage locks are deadlock-free: no operation of               *)
(* ReminderManager or of the duel engine tries to acquire a non-reentrant  *)
(* _db_lock it already holds, every acquired lock is released on every     *)
(* path including error paths, and so every add/list/delete/check or duel  *)
(* operation issued concurrently from the message thread, the scheduler    *)
(* thread and the duel thread eventually completes.                        *)
(***************************************************************************)

\* Thread t is inside a storage operation.
Operating(t) == doing[t].op # "none"

C39_LocksDeadlockFree ==
    /\ [](\A t \in LockThreads :
             /\ (Operating(t) /\ NextStep(t).do = "acquire")
                   => held[NextStep(t).lock] # t
             /\ ~Operating(t) => \A l \in Locks : held[l] # t)
    /\ \A t \in LockThreads : Operating(t) ~> ~Operating(t)

\* The duel thread holds the lock of duel_players in a duel, the message
\* thread waits for it in a sneak attack, the scheduler holds the lock of
\* the reminders.
C39_Witness ==
    /\ held["duel_players"] = "duel"
    /\ doing["duel"].op = "combat_duel"
    /\ doing["message"].op = "attempt_sneak_attack"
    /\ NextStep("message") = [do |-> "acquire", lock |-> "duel_players"]
    /\ held["reminders"] = "scheduler"

(***************************************************************************)
(* C40  CommandRouter.dispatch never propagates an exception: an exception *)
(* raised by a command's pattern predicate (or regex search) is caught     *)
(* just like one raised by a handler, that command is treated as not       *)
(* matching (its handler is not invoked), and the remaining commands are   *)
(* still tried in order.                                                   *)
(***************************************************************************)

\* The positions of the commands whose pattern raised on the routed message.
PatternRaised ==
    { i \in 1..Len(commands) :
        /\ commands[i].name \in Names(routed.evaluated)
        /\ routed.beh[commands[i].name] = "patraise" }

C40_DispatchNeverRaises ==
    routed.kind = "msg" =>
        /\ ~routed.propagated
        /\ routed.handled \in BOOLEAN
        /\ \A i \in PatternRaised :
              /\ commands[i].name \notin Names(routed.invoked)
              /\ \A j \in (i+1)..Len(commands) :
                    (/\ Eligible(commands[j], routed.ctx)
                     /\ \A k \in (i+1)..(j-1) :
                           Eligible(commands[k], routed.ctx)
                               => routed.beh[commands[k].name] # "true")
                        => /\ commands[j].name \in Names(routed.evaluated)
                           /\ routed.beh[commands[j].name] \in {"true", "false", "raise"}
                                 => commands[j].name \in Names(routed.invoked)
                           /\ routed.beh[commands[j].name] = "true" => routed.handled
        /\ \A a, b \in 1..Len(routed.evaluated) :
              a < b => PosOf(routed.evaluated[a]) < PosOf(routed.evaluated[b])

\* The pattern of the first command raised, and the command behind it was
\* tried and handled the message.
C40_Witness ==
    /\ routed.kind = "msg"
    /\ Len(routed.evaluated) = 2
    /\ routed.beh[routed.evaluated[1]] = "patraise"
    /\ routed.beh[routed.evaluated[2]] = "true"
    /\ routed.invoked = <<routed.evaluated[2]>>
    /\ routed.handled

=============================================================================
